---- MODULE Spec2Model ----
(***************************************************************************)
(* The gateway layer of shopify-mcp-server: the GraphQL execution client   *)
(* (query, mutate, queryAll), its error classifier, and the tool handlers  *)
(* that wrap it in the uniform result envelope.                            *)
(*                                                                         *)
(* A JavaScript step is atomic between two awaits: an action of this model *)
(* is the code that runs from one await to the next.                       *)
(***************************************************************************)
EXTENDS Integers, Sequences, FiniteSets, TLC

VARIABLES
    env,            \* process.env: [storeUrl, accessToken]
    clientInstance, \* the module-level singleton: [present, storeUrl, accessToken]
    op,             \* the gateway method running: "none", "query", "mutate", "queryAll"
    pc,             \* "idle", "awaiting" (transport request in flight), "returned", "thrown"
    mutationName,   \* third argument of mutate; "" when not supplied
    sent,           \* transport requests sent by the call (counts up to MaxSent)
    variables,      \* the variables of the last transport request: [id, after]
    script,         \* the pages the upstream serves to the queryAll in flight
    callerVariables, \* the variables argument of the queryAll in flight
    pos,            \* index in script of the page the request in flight will get
    allNodes,       \* queryAll local
    hasNextPage,    \* queryAll local
    cursor,         \* queryAll local
    warned,         \* console.warn was called by queryAll
    response,       \* what the transport answered (query's return value)
    mutResult,      \* what mutate returned
    raised,         \* the value the transport or the extractor threw
    raisedBy,       \* "none", "transport", "extractor", "code"
    thrown,         \* the exception that escaped the gateway method
    tool,           \* the tool handler running: "none" or a tool name
    input,          \* the raw argument object of the handler
    hpc,            \* handler: "idle", "awaiting", "resolved", "rejected"
    envelope,       \* the ToolResult the handler resolved to
    requestName,    \* params.name of the call_tool request being served; "" when none
    dpc,            \* call_tool handler: "idle", "awaiting", "returned", "thrown"
    reply,          \* what the call_tool handler returned, or the McpError it threw
    codec,          \* the toGid / fromGid calls made on their own, and what they gave
    lifecycle,      \* the last call of the client's lifecycle functions, and what it gave
    utility,        \* the last call of a function that keeps no state, and what it gave
    calls           \* the calls in flight at the same time, each with its own frame

vars == <<env, clientInstance, op, pc, mutationName, sent, variables, script, callerVariables, pos, allNodes,
          hasNextPage, cursor, warned, response, mutResult, raised, raisedBy,
          thrown, tool, input, hpc, envelope, requestName, dpc, reply,
          codec, lifecycle, utility, calls>>

gatewayVars == <<op, pc, mutationName, sent, variables, script, callerVariables, pos, allNodes, hasNextPage,
                 cursor, warned, response, mutResult, raised, raisedBy, thrown>>

handlerVars == <<tool, input, hpc, envelope>>

serverVars == <<requestName, dpc, reply>>

----------------------------------------------------------------------------
(* Bounds of the model *)

MaxMsgLen == 2      \* tokens in an error message
MaxPages == 3       \* pages in an upstream script of small pages
MaxBigPages == 2    \* pages in an upstream script of pages that reach the ceiling
MaxRunawayPages == 2 \* pages in the script of an upstream that never ends
MaxUserErrors == 2  \* entries in a userErrors list
MaxSent == 3        \* the request counter stops counting here
MaxIdLen == 5       \* parts of an identifier string
MaxInstances == 3   \* client instances constructed in one run
MaxResults == 2     \* paged results handed to combinePaginatedResults
MaxUrlLen == 3      \* parts of a store URL
MaxCalls == 2       \* calls in flight at the same time

(* Program constants *)

SafetyLimit == 10000

BigPage == SafetyLimit        \* a page as large as the ceiling

OverPage == SafetyLimit + 1   \* a page larger than the ceiling

----------------------------------------------------------------------------
(* JavaScript values *)

NullCursor == "null"

Cursors == {NullCursor, "c1"}

\* An error message is a sequence of tokens; String.includes(p) finds a token.
Tokens == {"Throttled", "401", "Unauthorized", "404", "not found", "timeout"}

RECURSIVE SeqsUpTo(_, _)
SeqsUpTo(S, n) ==
    IF n = 0 THEN {<<>>}
    ELSE LET shorter == SeqsUpTo(S, n - 1)
         IN shorter \cup {Append(s, x) : s \in {t \in shorter : Len(t) = n - 1}, x \in S}

Messages == SeqsUpTo(Tokens, MaxMsgLen)

Includes(message, pattern) == \E i \in 1..Len(message) : message[i] = pattern

\* A thrown value: class "NonError" is any value that is not instanceof Error.

\* What the transport may throw: an Error with any message, or a value that
\* is no Error (its message, if it has one, is never read).
ThrownValues ==
    [class : {"Error"}, message : Messages, userErrors : {<<>>}]
    \cup [class : {"NonError"}, message : SeqsUpTo(Tokens, 1), userErrors : {<<>>}]

\* Only a ShopifyValidationError has userErrors; the field is empty otherwise.
Exception(class, message) == [class |-> class, message |-> message, userErrors |-> <<>>]

NoException == Exception("none", <<>>)

IsError(error) == error.class # "NonError"

----------------------------------------------------------------------------
(* Error classes of the client, and the classifier *)

RateLimitMessage == <<"Rate limit exceeded. Please retry after a moment.">>

AuthenticationMessage == <<"Invalid access token or authentication failed.">>

UnknownMessage == <<"An unknown error occurred">>

ShopifyAPIError(message) == Exception("ShopifyAPIError", message)

ShopifyRateLimitError(message) == Exception("ShopifyRateLimitError", message)

ShopifyAuthenticationError(message) == Exception("ShopifyAuthenticationError", message)

ShopifyNotFoundError(message) == Exception("ShopifyNotFoundError", message)

ShopifyValidationError(message, userErrors) ==
    [class |-> "ShopifyValidationError", message |-> message, userErrors |-> userErrors]

\* The four kinds handleError constructs.
ClassifiedClasses == {"ShopifyRateLimitError", "ShopifyAuthenticationError",
                      "ShopifyNotFoundError", "ShopifyAPIError"}

\* A classifier that does not know the word Unauthorized.
handleErrorCodeOnly(error) ==
    IF IsError(error)
    THEN IF Includes(error.message, "Throttled")
         THEN ShopifyRateLimitError(RateLimitMessage)
         ELSE IF Includes(error.message, "401")
         THEN ShopifyAuthenticationError(AuthenticationMessage)
         ELSE IF Includes(error.message, "404") \/ Includes(error.message, "not found")
         THEN ShopifyNotFoundError(error.message)
         ELSE ShopifyAPIError(error.message)
    ELSE ShopifyAPIError(UnknownMessage)

\* A classifier that hands back a value that is no Error as it came.
handleErrorPassThrough(error) ==
    IF IsError(error)
    THEN IF Includes(error.message, "Throttled")
         THEN ShopifyRateLimitError(RateLimitMessage)
         ELSE IF Includes(error.message, "401") \/ Includes(error.message, "Unauthorized")
         THEN ShopifyAuthenticationError(AuthenticationMessage)
         ELSE IF Includes(error.message, "404") \/ Includes(error.message, "not found")
         THEN ShopifyNotFoundError(error.message)
         ELSE ShopifyAPIError(error.message)
    ELSE error

\* A classifier that looks for the authentication patterns first.
handleErrorAuthenticationFirst(error) ==
    IF IsError(error)
    THEN IF Includes(error.message, "401") \/ Includes(error.message, "Unauthorized")
         THEN ShopifyAuthenticationError(AuthenticationMessage)
         ELSE IF Includes(error.message, "Throttled")
         THEN ShopifyRateLimitError(RateLimitMessage)
         ELSE IF Includes(error.message, "404") \/ Includes(error.message, "not found")
         THEN ShopifyNotFoundError(error.message)
         ELSE ShopifyAPIError(error.message)
    ELSE ShopifyAPIError(UnknownMessage)

handleError(error) ==
    IF IsError(error)
    THEN IF Includes(error.message, "Throttled")
         THEN ShopifyRateLimitError(RateLimitMessage)
         ELSE IF Includes(error.message, "401") \/ Includes(error.message, "Unauthorized")
         THEN ShopifyAuthenticationError(AuthenticationMessage)
         ELSE IF Includes(error.message, "404") \/ Includes(error.message, "not found")
         THEN ShopifyNotFoundError(error.message)
         ELSE ShopifyAPIError(error.message)
    ELSE ShopifyAPIError(UnknownMessage)

----------------------------------------------------------------------------
(* The identifier codec: toGid and fromGid *)

\* A string is the sequence of its parts.  A part is the literal
\* "gid://shopify/", a run of letters ("Product"), a digit, a slash or a
\* hyphen; no other part holds a piece of the literal.
GidPrefix == "gid://shopify/"

Digits == {"0", "1", "2", "3", "4", "5", "6", "7", "8", "9"}

StringParts == {GidPrefix, "Product", "1", "/", "-"}

Strings == SeqsUpTo(StringParts, MaxIdLen)

\* The parts that \w of the pattern of fromGid matches; \d matches Digits.
WordParts == Digits \cup {"Product", "undefined"}

\* An id argument: a string, or a number.
NumberIds == {0, 7, 12, 345, -1}

IdValues ==
    [kind : {"string"}, str : Strings, num : {0}]
    \cup [kind : {"number"}, str : {<<>>}, num : NumberIds]

StringId(str) == [kind |-> "string", str |-> str, num |-> 0]

\* The type tags: a word, and tags that are no word.
TypeTags == {<<"Product">>, <<"Product", "-", "Product">>, <<>>}

DigitOf(d) ==
    CASE d = 0 -> "0" [] d = 1 -> "1" [] d = 2 -> "2" [] d = 3 -> "3" [] d = 4 -> "4"
      [] d = 5 -> "5" [] d = 6 -> "6" [] d = 7 -> "7" [] d = 8 -> "8" [] d = 9 -> "9"

\* String(n) of an integer n.
RECURSIVE NumberToString(_)
NumberToString(n) ==
    IF n < 0 THEN <<"-">> \o NumberToString(0 - n)
    ELSE IF n < 10 THEN <<DigitOf(n)>>
    ELSE NumberToString(n \div 10) \o <<DigitOf(n % 10)>>

\* String(id)
String(id) == IF id.kind = "number" THEN NumberToString(id.num) ELSE id.str

\* idStr.startsWith('gid://shopify/')
StartsWithGidPrefix(str) == Len(str) > 0 /\ str[1] = GidPrefix

\* An encoder that wraps whatever it is given.
toGidAlwaysWrap(type, id) == <<GidPrefix>> \o type \o <<"/">> \o String(id)

\* An encoder that hands the id back as it came.
toGidUnencoded(type, id) == String(id)

toGid(type, id) ==
    LET idStr == String(id)
    IN  IF StartsWithGidPrefix(idStr) THEN idStr
        ELSE <<GidPrefix>> \o type \o <<"/">> \o idStr

\* The end of the longest run of parts of a class that starts at i; i - 1
\* when there is none.
RECURSIVE RunEnd(_, _, _)
RunEnd(str, i, class) ==
    IF i <= Len(str) /\ str[i] \in class THEN RunEnd(str, i + 1, class) ELSE i - 1

\* gid.match(/gid:\/\/shopify\/\w+\/(\d+)/) matches at i: the literal at i, then
\* a run of word parts, a slash and a digit.  \w does not match the slash,
\* so the run is the longest one.
MatchesAt(str, i) ==
    /\ str[i] = GidPrefix
    /\ LET w == RunEnd(str, i + 1, WordParts)
       IN  /\ w >= i + 1
           /\ w + 2 <= Len(str)
           /\ str[w + 1] = "/"
           /\ str[w + 2] \in Digits

\* match[1] of the match at i: the longest run of digits after the slash.
Captured(str, i) ==
    LET w == RunEnd(str, i + 1, WordParts)
    IN  SubSeq(str, w + 2, RunEnd(str, w + 2, Digits))

\* A decoder whose pattern captures one digit: (\d) for (\d+).
fromGidOneDigit(gid) ==
    LET matches == {i \in 1..Len(gid) : MatchesAt(gid, i)}
    IN  IF matches # {}
        THEN SubSeq(Captured(gid, CHOOSE i \in matches : \A j \in matches : i <= j), 1, 1)
        ELSE gid

\* The first match in the string decides.
fromGid(gid) ==
    LET matches == {i \in 1..Len(gid) : MatchesAt(gid, i)}
    IN  IF matches # {}
        THEN Captured(gid, CHOOSE i \in matches : \A j \in matches : i <= j)
        ELSE gid

\* No codec call was made.
NoCodecCall == [stage |-> "none", type |-> <<>>, id |-> StringId(<<>>),
                encoded |-> <<>>, againType |-> <<>>, again |-> <<>>,
                decoded |-> <<>>]

----------------------------------------------------------------------------
(* Transport responses *)

\* A user error: field is a path or null (hasField false).
UserErrorValues == {[hasField |-> TRUE, field |-> <<"title">>, message |-> "can't be blank"],
                    [hasField |-> FALSE, field |-> <<>>, message |-> "denied"]}

UserErrorLists == SeqsUpTo(UserErrorValues, MaxUserErrors)

ResultKeys == {"productDelete", "product"}

\* The value of a top-level field: null, or an object that may carry an id
\* (<<>> when it has none) and may carry a userErrors list.
NullValue == [kind |-> "null", id |-> <<>>, hasUserErrors |-> FALSE, userErrors |-> <<>>]

ObjectIds == {<<>>, <<GidPrefix, "Product", "/", "1", "2", "3">>}

ObjectValues ==
    {[kind |-> "object", id |-> i, hasUserErrors |-> TRUE, userErrors |-> u] :
        i \in ObjectIds, u \in UserErrorLists}
    \cup {[kind |-> "object", id |-> i, hasUserErrors |-> FALSE, userErrors |-> <<>>] :
        i \in ObjectIds}

FieldValues == {NullValue} \cup ObjectValues

\* A response object is its fields in key order (Object.keys order); the
\* transport may also answer null.
NullResponse == [isNull |-> TRUE, fields |-> <<>>]

Responses ==
    {NullResponse}
    \cup {[isNull |-> FALSE, fields |-> <<>>]}
    \cup {[isNull |-> FALSE, fields |-> <<[key |-> k, value |-> v]>>] :
            k \in ResultKeys, v \in FieldValues}
    \cup {[isNull |-> FALSE,
           fields |-> <<[key |-> k[1], value |-> v1], [key |-> k[2], value |-> v2]>>] :
            k \in {kk \in ResultKeys \X ResultKeys : kk[1] # kk[2]},
            v1 \in FieldValues, v2 \in FieldValues}

HasKey(resp, key) == \E i \in 1..Len(resp.fields) : resp.fields[i].key = key

\* resp[key]; undefined reads as the null value.
Get(resp, key) ==
    IF HasKey(resp, key)
    THEN LET i == CHOOSE j \in 1..Len(resp.fields) : resp.fields[j].key = key
         IN resp.fields[i].value
    ELSE NullValue

----------------------------------------------------------------------------
(* Configuration and the singleton *)

Env == [storeUrl : {"", "shop.myshopify.com"}, accessToken : {"", "tok"}]

\* clientInstance: null, or an instance, which has its identity (the count
\* of instances constructed when it was) and its config.
NoClient == [present |-> FALSE, instance |-> 0, storeUrl |-> "", accessToken |-> ""]

\* The config argument of the constructor: absent, or a Partial<ShopifyConfig>
\* whose fields may be absent ("").
NoConfig == [given |-> FALSE, storeUrl |-> "", accessToken |-> ""]

Configs == [given : {TRUE}, storeUrl : {"", "other.myshopify.com"},
            accessToken : {"", "tok2"}]

\* this.config as the constructor sets it from the argument and process.env.
MergedConfig(config, environment) ==
    [storeUrl |-> IF config.storeUrl # "" THEN config.storeUrl ELSE environment.storeUrl,
     accessToken |-> IF config.accessToken # "" THEN config.accessToken
                     ELSE environment.accessToken]

\* new ShopifyGraphQLClient(config), the id-th instance constructed.
NewClient(config, environment, id) ==
    [present |-> TRUE, instance |-> id,
     storeUrl |-> MergedConfig(config, environment).storeUrl,
     accessToken |-> MergedConfig(config, environment).accessToken]

\* The calls that may be in flight at the same time, and a call not started.
CallIds == 1..MaxCalls

NoCall == [status |-> "idle", kind |-> "none", client |-> NoClient, script |-> <<>>,
           pos |-> 0, allNodes |-> <<>>, via |-> <<>>, result |-> <<>>]

\* No lifecycle function was called.
NoLifecycleCall == [made |-> 0, call |-> "none", withConfig |-> FALSE, config |-> NoConfig,
                    threw |-> FALSE, error |-> NoException, returned |-> 0,
                    before |-> NoClient]

\* A validateConfig that asks for the store URL only.
validateConfigStoreUrlOnly(config) == config.storeUrl # ""

\* validateConfig: does the constructor get past it?
validateConfig(config) == config.storeUrl # "" /\ config.accessToken # ""

StoreUrlRequired ==
    Exception("Error", <<"SHOPIFY_STORE_URL is required. Set it as an environment variable or pass it in the config.">>)

AccessTokenRequired ==
    Exception("Error", <<"SHOPIFY_ACCESS_TOKEN is required. Set it as an environment variable or pass it in the config.">>)

\* What validateConfig throws when it throws.
ConfigError(config) ==
    IF config.storeUrl = "" THEN StoreUrlRequired ELSE AccessTokenRequired

----------------------------------------------------------------------------
(* The endpoint of a client *)

\* A store URL is the sequence of its parts: a scheme with its "://", a
\* host name, or a slash.  A host name has no slash and no colon in it.
HttpSchemes == {"http://", "https://"}

Schemes == HttpSchemes \cup {"ftp://"}

UrlParts == Schemes \cup {"shop.myshopify.com", "/"}

\* The store URLs validateConfig lets through: the non-empty ones.
StoreUrls == SeqsUpTo(UrlParts, MaxUrlLen) \ {<<>>}

DefaultApiVersion == "2025-01"

\* config.apiVersion || process.env.SHOPIFY_API_VERSION || DEFAULT_API_VERSION
ApiVersion(configVersion, envVersion) ==
    IF configVersion # "" THEN configVersion
    ELSE IF envVersion # "" THEN envVersion
    ELSE DefaultApiVersion

\* .replace(/^https?:\/\//, '')
replaceScheme(url) ==
    IF url # <<>> /\ url[1] \in HttpSchemes THEN Tail(url) ELSE url

\* A scheme part without its last slash.
WithoutLastSlash(part) ==
    CASE part = "http://" -> "http:/"
      [] part = "https://" -> "https:/"
      [] part = "ftp://" -> "ftp:/"

\* .replace(/\/$/, ''): the last character goes when it is a slash, be it a
\* part of its own or the end of a scheme part.
replaceTrailingSlash(url) ==
    IF url = <<>> THEN url
    ELSE IF url[Len(url)] = "/" THEN SubSeq(url, 1, Len(url) - 1)
    ELSE IF url[Len(url)] \in Schemes
    THEN Append(SubSeq(url, 1, Len(url) - 1), WithoutLastSlash(url[Len(url)]))
    ELSE url

\* An endpoint that keeps the trailing slash of the store URL.
buildEndpointKeepingSlash(storeUrl, apiVersion) ==
    <<"https://">> \o replaceScheme(storeUrl)
        \o <<"/admin/api/", apiVersion, "/graphql.json">>

\* buildEndpoint, of this.config.storeUrl and this.config.apiVersion
buildEndpoint(storeUrl, apiVersion) ==
    <<"https://">> \o replaceTrailingSlash(replaceScheme(storeUrl))
        \o <<"/admin/api/", apiVersion, "/graphql.json">>

----------------------------------------------------------------------------
(* Paged results and their combination *)

\* No function without state was called.
NoUtilityCall == [fn |-> "none"]

PageInfos == [hasNextPage : BOOLEAN, hasPreviousPage : BOOLEAN,
              startCursor : {NullCursor, "s1"}, endCursor : {NullCursor, "c1"}]

\* PaginatedResult<T>, its items out of two.
PaginatedResults == [items : SeqsUpTo({"a", "b"}, 1), pageInfo : PageInfos]

\* The lists of at most n results.
ResultLists(n) == SeqsUpTo(PaginatedResults, n)

\* results.flatMap((r) => r.items)
RECURSIVE flatMapItems(_)
flatMapItems(results) ==
    IF results = <<>> THEN <<>>
    ELSE results[1].items \o flatMapItems(Tail(results))

\* A combination that reports the first result's end.
combineEndOfFirst(results) ==
    IF Len(results) = 0
    THEN [items |-> <<>>,
          pageInfo |-> [hasNextPage |-> FALSE, hasPreviousPage |-> FALSE,
                        startCursor |-> NullCursor, endCursor |-> NullCursor]]
    ELSE [items |-> flatMapItems(results),
          pageInfo |-> [hasNextPage |-> results[1].pageInfo.hasNextPage,
                        hasPreviousPage |-> results[1].pageInfo.hasPreviousPage,
                        startCursor |-> results[1].pageInfo.startCursor,
                        endCursor |-> results[1].pageInfo.endCursor]]

combinePaginatedResults(results) ==
    IF Len(results) = 0
    THEN [items |-> <<>>,
          pageInfo |-> [hasNextPage |-> FALSE, hasPreviousPage |-> FALSE,
                        startCursor |-> NullCursor, endCursor |-> NullCursor]]
    ELSE LET firstResult == results[1]
             lastResult == results[Len(results)]
         IN  [items |-> flatMapItems(results),
              pageInfo |-> [hasNextPage |-> lastResult.pageInfo.hasNextPage,
                            hasPreviousPage |-> firstResult.pageInfo.hasPreviousPage,
                            startCursor |-> firstResult.pageInfo.startCursor,
                            endCursor |-> lastResult.pageInfo.endCursor]]

----------------------------------------------------------------------------
(* The upstream of queryAll *)

PageSizes == {0, 1, 2}

BigSizes == {1, BigPage, OverPage}

\* An array of nodes is its length and its elements, the elements kept
\* run-length encoded: a sequence of runs [node, count], no two neighbouring
\* runs of the same node.  Two arrays are equal exactly when these records are.
EmptyList == [length |-> 0, runs |-> <<>>]

\* The elements of a followed by those of b.
Concat(a, b) ==
    [length |-> a.length + b.length,
     runs |-> IF a.runs # <<>> /\ b.runs # <<>>
                 /\ a.runs[Len(a.runs)].node = b.runs[1].node
              THEN [a.runs EXCEPT ![Len(a.runs)].count = @ + b.runs[1].count]
                   \o Tail(b.runs)
              ELSE a.runs \o b.runs]

\* The nodes of the page at index p of the script, in the server's order:
\* node j of page p is <<p, j>>.
PageNodes(p, size) ==
    [length |-> size, runs |-> [j \in 1..size |-> [node |-> <<p, j>>, count |-> 1]]]

\* Scripts of at most maxLen pages that keep the connection contract on
\* hasNextPage: only the last page reports hasNextPage false.
ScriptsOver(sizes, cursors, maxLen) ==
    UNION {{[i \in 1..n |-> [size |-> f[i][1], hasNextPage |-> (i < n),
                             endCursor |-> f[i][2]]] :
                f \in [1..n -> sizes \X cursors]} : n \in 1..maxLen}

SmallScripts == ScriptsOver(PageSizes, Cursors, MaxPages)

\* Scripts of small pages, and scripts whose pages reach the ceiling.
Scripts ==
    SmallScripts
    \cup ScriptsOver(BigSizes, {"c1"}, MaxBigPages)

\* Upstreams that report hasNextPage true on every page; the script is
\* served over and over.
RunawayPage(n, c) == [size |-> n, hasNextPage |-> TRUE, endCursor |-> c]

\* One node per page, for ever.
OneItemScripts == {<<RunawayPage(1, c)>> : c \in Cursors}

\* Pages that are empty or reach the ceiling, under any cursors.
RunawaySizes == {0, BigPage, OverPage}

RunawayScripts ==
    UNION {{[i \in 1..n |-> RunawayPage(f[i][1], f[i][2])] :
                f \in [1..n -> RunawaySizes \X {"c1", "c2"}]} :
           n \in 2..MaxRunawayPages}

----------------------------------------------------------------------------
(* The result envelope and handleToolError *)

NoToolError == [code |-> "", message |-> <<>>, hasDetails |-> FALSE]

\* The data of an envelope, in the resource identifiers it holds: the one
\* given as id (or as deletedProductId), and the one given as gid.
NoData == [id |-> <<>>, gid |-> <<>>]

NoEnvelope == [success |-> FALSE, hasData |-> FALSE, hasError |-> FALSE,
               error |-> NoToolError, data |-> NoData]

\* The call_tool handler has not answered.
NoReply == [kind |-> "none", isError |-> FALSE, code |-> "", tools |-> <<>>]

successResult(data) ==
    [success |-> TRUE, hasData |-> TRUE, hasError |-> FALSE,
     error |-> NoToolError, data |-> data]

errorResult(code, message, hasDetails) ==
    [success |-> FALSE, hasData |-> FALSE, hasError |-> TRUE,
     error |-> [code |-> code, message |-> message, hasDetails |-> hasDetails],
     data |-> NoData]

\* Strings that are taken apart are sequences of their parts.
RECURSIVE Join(_, _)
Join(parts, separator) ==
    IF Len(parts) = 0 THEN <<>>
    ELSE IF Len(parts) = 1 THEN parts
    ELSE <<parts[1], separator>> \o Join(Tail(parts), separator)

RECURSIVE userErrorMessages(_)
userErrorMessages(userErrors) ==
    IF userErrors = <<>> THEN <<>>
    ELSE LET e == Head(userErrors)
             field == IF e.hasField THEN Join(e.field, ".") ELSE <<"unknown">>
         IN  field \o <<": ", e.message>>
             \o (IF Len(userErrors) > 1 THEN <<"; ">> ELSE <<>>)
             \o userErrorMessages(Tail(userErrors))

formatUserErrors(userErrors) ==
    errorResult("VALIDATION_ERROR", userErrorMessages(userErrors), TRUE)

\* error.name, in the parts that String.replace looks for.
ErrorName(class) ==
    CASE class = "ShopifyAPIError" -> <<"Shopify", "API", "Error">>
      [] class = "ShopifyRateLimitError" -> <<"Shopify", "RateLimit", "Error">>
      [] class = "ShopifyAuthenticationError" -> <<"Shopify", "Authentication", "Error">>
      [] class = "ShopifyNotFoundError" -> <<"Shopify", "NotFound", "Error">>
      [] class = "ShopifyValidationError" -> <<"Shopify", "Validation", "Error">>
      [] OTHER -> <<class>>

\* String.replace(part, ''): the first occurrence goes.
RECURSIVE Replace(_, _)
Replace(name, part) ==
    IF name = <<>> THEN <<>>
    ELSE IF Head(name) = part THEN Tail(name)
    ELSE <<Head(name)>> \o Replace(Tail(name), part)

ToUpperCase(part) ==
    CASE part = "API" -> "API"
      [] part = "RateLimit" -> "RATELIMIT"
      [] part = "Authentication" -> "AUTHENTICATION"
      [] part = "NotFound" -> "NOTFOUND"
      [] part = "Validation" -> "VALIDATION"
      [] OTHER -> part

\* error.name.replace('Shopify', '').replace('Error', '').toUpperCase()
ErrorCode(class) ==
    LET rest == Replace(Replace(ErrorName(class), "Shopify"), "Error")
    IN  IF rest = <<>> THEN "" ELSE ToUpperCase(rest[1])

\* The values of the ErrorCodes object.
ErrorCodes == {"NOT_FOUND", "VALIDATION_ERROR", "AUTHENTICATION_ERROR",
               "RATE_LIMIT_ERROR", "API_ERROR", "INVALID_INPUT", "UNKNOWN_ERROR"}

\* instanceof ShopifyAPIError
IsShopifyAPIError(error) ==
    error.class \in ClassifiedClasses \cup {"ShopifyValidationError"}

handleToolError(error) ==
    IF error.class = "ShopifyValidationError"
    THEN formatUserErrors(error.userErrors)
    ELSE IF IsShopifyAPIError(error)
    THEN errorResult(IF ErrorCode(error.class) = "" THEN "API_ERROR"
                     ELSE ErrorCode(error.class), error.message, FALSE)
    ELSE IF IsError(error)
    THEN errorResult("UNKNOWN_ERROR", error.message, FALSE)
    ELSE errorResult("UNKNOWN_ERROR", <<"An unexpected error occurred">>, FALSE)

----------------------------------------------------------------------------
(* The gateway methods, as the steps between their awaits *)

\* The variables of a request, in what is read of them: the id and the after
\* cursor; <<>> and "none" where the request carries none.
NoVariables == [id |-> <<>>, after |-> "none"]

\* { id: gid }, or { input: { id: gid } }
IdVariables(gid) == [id |-> gid, after |-> "none"]

\* { ...variables, after: cursor }
\* A spread that lets the caller's after stand.
AfterOfCaller(v, c) == IF v.after = "none" THEN [v EXCEPT !.after = c] ELSE v

\* { ...variables, after: cursor }
After(v, c) == [v EXCEPT !.after = c]

\* The variables a caller may hand to queryAll: with an id or none, with an
\* after of its own or none.
CallerVariables == [id : {<<>>, <<GidPrefix, "Product", "/", "1", "2", "3">>},
                    after : {"none", NullCursor, "c1", "c9"}]

Init ==
    /\ env \in Env
    /\ clientInstance = NoClient
    /\ op = "none"
    /\ pc = "idle"
    /\ mutationName = ""
    /\ sent = 0
    /\ variables = NoVariables
    /\ script = <<>>
    /\ callerVariables = NoVariables
    /\ pos = 0
    /\ allNodes = EmptyList
    /\ hasNextPage = TRUE
    /\ cursor = NullCursor
    /\ warned = FALSE
    /\ response = NullResponse
    /\ mutResult = [success |-> FALSE, data |-> NullResponse, userErrors |-> <<>>]
    /\ raised = NoException
    /\ raisedBy = "none"
    /\ thrown = NoException
    /\ tool = "none"
    /\ input = [isNull |-> TRUE, id |-> <<>>]
    /\ hpc = "idle"
    /\ envelope = NoEnvelope
    /\ requestName = ""
    /\ dpc = "idle"
    /\ reply = NoReply
    /\ codec = NoCodecCall
    /\ lifecycle = NoLifecycleCall
    /\ utility = NoUtilityCall
    /\ calls = [i \in CallIds |-> NoCall]

\* this.client.request(...) is called: one transport request goes out.
request(v) ==
    /\ sent' = IF sent < MaxSent THEN sent + 1 ELSE sent
    /\ variables' = v

\* The locals of queryAll when it starts, and once its frame is gone.
noFrame ==
    /\ script' = <<>>
    /\ callerVariables' = NoVariables
    /\ pos' = 0
    /\ allNodes' = EmptyList
    /\ hasNextPage' = TRUE
    /\ cursor' = NullCursor

\* query up to its await.
queryCall(v) ==
    /\ op = "none" /\ pc = "idle"
    /\ op' = "query"
    /\ pc' = "awaiting"
    /\ request(v)
    /\ UNCHANGED <<mutationName, script, callerVariables, pos, allNodes, hasNextPage, cursor, warned,
                   response, mutResult, raised, raisedBy, thrown>>

\* query after its await, the request answered.
queryReturn(resp) ==
    /\ op = "query" /\ pc = "awaiting"
    /\ response' = resp
    /\ pc' = "returned"
    /\ UNCHANGED <<op, mutationName, sent, variables, script, callerVariables, pos, allNodes, hasNextPage, cursor,
                   warned, mutResult, raised, raisedBy, thrown>>

\* A catch block that sends the request again when it was throttled.
catchRetry(error) ==
    /\ pc = "awaiting"
    /\ raised' = error
    /\ raisedBy' = "transport"
    /\ IF handleError(error).class = "ShopifyRateLimitError" /\ sent < 2
       THEN /\ request(variables)
            /\ UNCHANGED <<pc, thrown, script, callerVariables, pos, allNodes, hasNextPage, cursor>>
       ELSE /\ thrown' = handleError(error)
            /\ pc' = "thrown"
            /\ noFrame
            /\ UNCHANGED <<sent, variables>>
    /\ UNCHANGED <<op, mutationName, warned, response, mutResult>>

\* A queryAll that, when a page request fails, returns the items it has.
catchKeepingItems(error) ==
    /\ pc = "awaiting"
    /\ raised' = error
    /\ raisedBy' = "transport"
    /\ IF op = "queryAll"
       THEN /\ pc' = "returned"
            /\ UNCHANGED <<thrown, script, callerVariables, pos, allNodes, hasNextPage, cursor>>
       ELSE /\ thrown' = handleError(error)
            /\ pc' = "thrown"
            /\ noFrame
    /\ UNCHANGED <<op, mutationName, sent, variables, warned, response, mutResult>>

\* The catch block of query and of mutate: the request was rejected with error.
\* queryAll awaits query outside any try, so the exception leaves queryAll too
\* and its frame is gone.
catch(error) ==
    /\ pc = "awaiting"
    /\ raised' = error
    /\ raisedBy' = "transport"
    /\ thrown' = handleError(error)
    /\ pc' = "thrown"
    /\ noFrame
    /\ UNCHANGED <<op, mutationName, sent, variables, warned, response, mutResult>>

\* mutate up to its await.
mutateCall(v, name) ==
    /\ op = "none" /\ pc = "idle"
    /\ op' = "mutate"
    /\ mutationName' = name
    /\ pc' = "awaiting"
    /\ request(v)
    /\ UNCHANGED <<script, callerVariables, pos, allNodes, hasNextPage, cursor, warned,
                   response, mutResult, raised, raisedBy, thrown>>

\* Reading a property of null or undefined.
TypeErrorOfNull == Exception("TypeError", <<"Cannot read properties of null">>)

\* const key = mutationName || Object.keys(response)[0]
resultKey(resp, name) ==
    IF name # "" THEN name
    ELSE IF Len(resp.fields) > 0 THEN resp.fields[1].key
    ELSE "undefined"

\* result?.userErrors && result.userErrors.length > 0
hasUserErrors(result) ==
    result.kind = "object" /\ result.hasUserErrors /\ Len(result.userErrors) > 0

\* A normalizer that reports success whatever the userErrors.
MutationResultIgnoring(resp, name) ==
    [success |-> TRUE, data |-> resp, userErrors |-> <<>>]

\* A normalizer that hands back the keyed sub-object's side only: no data on
\* success either.
MutationResultNoData(resp, name) ==
    LET result == Get(resp, resultKey(resp, name))
    IN  IF hasUserErrors(result)
        THEN [success |-> FALSE, data |-> NullResponse, userErrors |-> result.userErrors]
        ELSE [success |-> TRUE, data |-> NullResponse, userErrors |-> <<>>]

\* The MutationResult mutate returns for a response that is an object.
MutationResult(resp, name) ==
    LET result == Get(resp, resultKey(resp, name))
    IN  IF hasUserErrors(result)
        THEN [success |-> FALSE, data |-> NullResponse, userErrors |-> result.userErrors]
        ELSE [success |-> TRUE, data |-> resp, userErrors |-> <<>>]

\* mutate after its await, the request answered.  A null response makes the
\* key lookup throw inside the try, and the catch block classifies that.
mutateReturn(resp) ==
    /\ op = "mutate" /\ pc = "awaiting"
    /\ response' = resp
    /\ IF resp.isNull
       THEN /\ raised' = TypeErrorOfNull
            /\ raisedBy' = "code"
            /\ thrown' = handleError(TypeErrorOfNull)
            /\ pc' = "thrown"
            /\ UNCHANGED mutResult
       ELSE /\ mutResult' = MutationResult(resp, mutationName)
            /\ pc' = "returned"
            /\ UNCHANGED <<raised, raisedBy, thrown>>
    /\ UNCHANGED <<op, mutationName, sent, variables, script, callerVariables, pos, allNodes, hasNextPage, cursor,
                   warned>>

\* queryAll up to its first await: the loop is entered and the first page
\* requested.  s is what the upstream will serve.
queryAllCall(s, v) ==
    /\ op = "none" /\ pc = "idle"
    /\ op' = "queryAll"
    /\ script' = s
    /\ callerVariables' = v
    /\ pos' = 1
    /\ allNodes' = EmptyList
    /\ hasNextPage' = TRUE
    /\ cursor' = NullCursor
    /\ pc' = "awaiting"
    /\ request(After(v, NullCursor))
    /\ UNCHANGED <<mutationName, warned, response, mutResult, raised, raisedBy, thrown>>

\* allNodes.push(...nodes) that puts the new nodes first.
pushFront(nodes, more) == Concat(more, nodes)

\* allNodes.push(...nodes)
push(nodes, more) == Concat(nodes, more)

\* A limit test that stops at the ceiling already.
exceededAtLimit(nodes) == nodes.length >= SafetyLimit

\* allNodes.length > 10000
exceeded(nodes) == nodes.length > SafetyLimit

\* queryAll from the answer to a page request to the next await or the
\* return: the page is extracted and appended, the limit tested, and the loop
\* either requests the next page or ends.
queryAllPage ==
    /\ op = "queryAll" /\ pc = "awaiting"
    /\ LET page == script[pos]
           nodes == push(allNodes, PageNodes(pos, page.size))
       IN  /\ allNodes' = nodes
           /\ hasNextPage' = page.hasNextPage
           /\ cursor' = page.endCursor
           /\ IF exceeded(nodes)
              THEN /\ warned' = TRUE
                   /\ pc' = "returned"
                   /\ UNCHANGED <<pos, sent, variables>>
              ELSE IF page.hasNextPage
              THEN /\ pos' = (pos % Len(script)) + 1
                   /\ request(After(callerVariables, page.endCursor))
                   /\ UNCHANGED <<warned, pc>>
              ELSE /\ pc' = "returned"
                   /\ UNCHANGED <<pos, sent, variables, warned>>
    /\ UNCHANGED <<op, mutationName, script, callerVariables, response, mutResult, raised, raisedBy,
                   thrown>>

\* extractNodes(response) throws: queryAll calls it outside any try.
extractThrows(error) ==
    /\ op = "queryAll" /\ pc = "awaiting"
    /\ raised' = error
    /\ raisedBy' = "extractor"
    /\ thrown' = error
    /\ pc' = "thrown"
    /\ noFrame
    /\ UNCHANGED <<op, mutationName, sent, variables, warned, response, mutResult>>

----------------------------------------------------------------------------
(* Calls made on a client directly.  The client was built from the            *)
(* environment, so there is one only when the environment is complete.       *)

\* What a page extractor may throw: it is the caller's code.
ExtractorThrown ==
    {TypeErrorOfNull,
     Exception("NonError", <<>>),
     ShopifyValidationError(<<"rejected">>, <<>>)}

\* The gateway called on its own, on a client that is not the singleton: its
\* steps read nothing of the server's reply and nothing of the singleton, so
\* these calls start while there is neither.
Query ==
    /\ tool = "none" /\ validateConfig(env) /\ reply = NoReply
    /\ ~clientInstance.present
    /\ queryCall(NoVariables)
    /\ UNCHANGED <<env, clientInstance, handlerVars, serverVars, codec, lifecycle, utility, calls>>

Mutate ==
    /\ tool = "none" /\ validateConfig(env) /\ reply = NoReply
    /\ ~clientInstance.present
    /\ \E name \in {""} \cup ResultKeys : mutateCall(NoVariables, name)
    /\ UNCHANGED <<env, clientInstance, handlerVars, serverVars, codec, lifecycle, utility, calls>>

QueryAll ==
    /\ tool = "none" /\ validateConfig(env) /\ reply = NoReply
    /\ ~clientInstance.present
    /\ \E s \in Scripts : queryAllCall(s, NoVariables)
    /\ UNCHANGED <<env, clientInstance, handlerVars, serverVars, codec, lifecycle, utility, calls>>

QueryAnswered ==
    /\ tool = "none"
    /\ \E resp \in Responses : queryReturn(resp)
    /\ UNCHANGED <<env, clientInstance, handlerVars, serverVars, codec, lifecycle, utility, calls>>

MutateAnswered ==
    /\ tool = "none"
    /\ \E resp \in Responses : mutateReturn(resp)
    /\ UNCHANGED <<env, clientInstance, handlerVars, serverVars, codec, lifecycle, utility, calls>>

PageAnswered ==
    /\ queryAllPage
    /\ UNCHANGED <<env, clientInstance, handlerVars, serverVars, codec, lifecycle, utility, calls>>

RequestFails ==
    /\ tool = "none" /\ pc = "awaiting"
    /\ \E error \in ThrownValues : catch(error)
    /\ UNCHANGED <<env, clientInstance, handlerVars, serverVars, codec, lifecycle, utility, calls>>

ExtractorFails ==
    /\ op = "queryAll" /\ pc = "awaiting"
    /\ \E error \in ExtractorThrown : extractThrows(error)
    /\ UNCHANGED <<env, clientInstance, handlerVars, serverVars, codec, lifecycle, utility, calls>>

\* queryAll called with variables of the caller's.
QueryAllWithVariables ==
    /\ tool = "none" /\ validateConfig(env) /\ reply = NoReply
    /\ ~clientInstance.present
    /\ op = "none"
    /\ \E s \in SmallScripts, v \in CallerVariables :
          queryAllCall(s, v)
    /\ UNCHANGED <<env, clientInstance, handlerVars, serverVars, codec, lifecycle, utility, calls>>

\* queryAll against the upstream of one node per page.
QueryAllOneItem ==
    /\ tool = "none" /\ validateConfig(env) /\ reply = NoReply
    /\ ~clientInstance.present
    /\ \E s \in OneItemScripts : queryAllCall(s, NoVariables)
    /\ UNCHANGED <<env, clientInstance, handlerVars, serverVars, codec, lifecycle, utility, calls>>

\* queryAll against an upstream that never reports the last page.
QueryAllRunaway ==
    /\ tool = "none" /\ validateConfig(env) /\ reply = NoReply
    /\ ~clientInstance.present
    /\ \E s \in RunawayScripts : queryAllCall(s, NoVariables)
    /\ UNCHANGED <<env, clientInstance, handlerVars, serverVars, codec, lifecycle, utility, calls>>

----------------------------------------------------------------------------
(* The tool handlers get_product and delete_product *)

Tools == {"get_product", "delete_product"}

\* An id in the short form and the same id in the opaque form.
ShortProductId == <<"1", "2", "3">>

OpaqueProductId == <<GidPrefix, "Product", "/", "1", "2", "3">>

\* The raw argument: null or undefined, or an object whose id is absent (<<>>),
\* short or opaque.
Inputs ==
    {[isNull |-> TRUE, id |-> <<>>]}
    \cup [isNull : {FALSE}, id : {<<>>, ShortProductId, OpaqueProductId}]

\* input.id as toGid and the messages read it: undefined when it is absent.
InputId(in) == StringId(IF in.id = <<>> THEN <<"undefined">> ELSE in.id)

\* getShopifyClient() with no config throws when it has to build the client
\* and the environment is incomplete.
getShopifyClientThrows == ~clientInstance.present /\ ~validateConfig(env)

\* getShopifyClient() with no config: the instance, built first if there is none.
getShopifyClient ==
    clientInstance' =
        IF clientInstance.present THEN clientInstance
        ELSE NewClient(NoConfig, env, 1)

\* A handler whose catch block lets an exception that is no ShopifyAPIError go.
handlerCatchShopifyOnly(error) ==
    IF IsShopifyAPIError(error)
    THEN /\ envelope' = handleToolError(error)
         /\ hpc' = "resolved"
    ELSE /\ hpc' = "rejected"
         /\ UNCHANGED envelope

\* catch (error) { return handleToolError(error); }
handlerCatch(error) ==
    /\ envelope' = handleToolError(error)
    /\ hpc' = "resolved"

handlerReturn(result) ==
    /\ envelope' = result
    /\ hpc' = "resolved"

\* The type tag a handler encodes input.id with.
ResourceType(t) == IF t = "cancel_order" THEN <<"Order">> ELSE <<"Product">>

\* The mutationName a mutating handler hands to client.mutate.
MutationName(t) == IF t = "cancel_order" THEN "orderCancel" ELSE "productDelete"

\* A handler from its call to its first await, or to its return when the
\* client cannot be built or the argument cannot be read.
invoke(t, in) ==
    /\ tool = "none" /\ hpc = "idle" /\ op = "none" /\ pc = "idle"
    /\ tool' = t
    /\ input' = in
    /\ IF getShopifyClientThrows
       THEN /\ handlerCatch(ConfigError(env))
            /\ UNCHANGED <<clientInstance, gatewayVars>>
       ELSE /\ getShopifyClient
            /\ IF in.isNull
               THEN /\ handlerCatch(TypeErrorOfNull)
                    /\ UNCHANGED gatewayVars
               ELSE /\ LET gid == toGid(ResourceType(t), InputId(in))
                       IN  IF t = "get_product"
                           THEN queryCall(IdVariables(gid))
                           ELSE mutateCall(IdVariables(gid), MutationName(t))
                    /\ hpc' = "awaiting"
                    /\ UNCHANGED envelope

\* A handler called directly, with any argument.
InvokeTool ==
    /\ dpc = "idle"
    /\ \E t \in Tools, in \in Inputs : invoke(t, in)
    /\ UNCHANGED <<env, serverVars, codec, lifecycle, utility, calls>>

\* formatProduct(product), in the identifiers of the product itself.
formatProduct(product) == [id |-> fromGid(product.id), gid |-> product.id]

\* getProduct after client.query returned resp.
getProductResume(resp) ==
    IF resp.isNull
    THEN handlerCatch(TypeErrorOfNull)
    ELSE IF Get(resp, "product").kind = "null"
    THEN handlerReturn(errorResult("NOT_FOUND",
                                   <<"Product with ID ">> \o String(InputId(input))
                                       \o <<" not found">>, FALSE))
    ELSE IF Get(resp, "product").id = <<>>
    THEN handlerCatch(TypeErrorOfNull)     \* formatProduct: fromGid(undefined)
    ELSE handlerReturn(successResult(formatProduct(Get(resp, "product"))))

\* deleteProduct after client.mutate returned or threw.
deleteProductResume ==
    IF pc' = "thrown"
    THEN handlerCatch(thrown')
    ELSE IF ~mutResult'.success
    THEN handlerReturn(errorResult("VALIDATION_ERROR", <<"Failed to delete product">>, TRUE))
    ELSE handlerReturn(successResult([id |-> input.id, gid |-> <<>>]))

\* The request of a handler is answered: the gateway method finishes and the
\* handler runs to its return.
ToolAnswered ==
    /\ tool \in Tools /\ hpc = "awaiting"
    /\ \E resp \in Responses :
        IF tool = "get_product"
        THEN queryReturn(resp) /\ getProductResume(resp)
        ELSE mutateReturn(resp) /\ deleteProductResume
    /\ UNCHANGED <<env, clientInstance, tool, input, serverVars, codec, lifecycle, utility, calls>>

\* The request of a handler is rejected: the gateway method throws the
\* classified error and the handler catches it.
ToolRequestFails ==
    /\ tool # "none" /\ hpc = "awaiting"
    /\ \E error \in ThrownValues : catch(error) /\ handlerCatch(thrown')
    /\ UNCHANGED <<env, clientInstance, tool, input, serverVars, codec, lifecycle, utility, calls>>

----------------------------------------------------------------------------
(* The mutating handlers delete_product and cancel_order *)

MutatingTools == {"delete_product", "cancel_order"}

\* The payload of orderCancel as CANCEL_ORDER selects it: a job, and the
\* business errors under orderCancelUserErrors; no userErrors field.
OrderCancelPayloads ==
    {[kind |-> "object", id |-> <<>>, hasUserErrors |-> FALSE, userErrors |-> <<>>,
      orderCancelUserErrors |-> u] : u \in UserErrorLists}

CancelResponses ==
    {NullResponse}
    \cup {[isNull |-> FALSE, fields |-> <<[key |-> "orderCancel", value |-> v]>>] :
            v \in {NullValue} \cup OrderCancelPayloads}

\* cancelOrder after client.mutate returned or threw.
cancelOrderResume ==
    IF pc' = "thrown"
    THEN handlerCatch(thrown')
    ELSE IF ~mutResult'.success
    THEN handlerReturn(errorResult("VALIDATION_ERROR", <<"Failed to cancel order">>, TRUE))
    ELSE handlerReturn(successResult([id |-> input.id, gid |-> <<>>]))

\* A mutating handler called directly, with any argument.
InvokeMutatingTool ==
    /\ dpc = "idle"
    /\ \E t \in MutatingTools, in \in Inputs : invoke(t, in)
    /\ UNCHANGED <<env, serverVars, codec, lifecycle, utility, calls>>

\* The mutation of a mutating handler is answered.
MutatingToolAnswered ==
    /\ tool \in MutatingTools /\ hpc = "awaiting"
    /\ IF tool = "cancel_order"
       THEN \E resp \in CancelResponses : mutateReturn(resp) /\ cancelOrderResume
       ELSE \E resp \in Responses : mutateReturn(resp) /\ deleteProductResume
    /\ UNCHANGED <<env, clientInstance, tool, input, serverVars, codec, lifecycle, utility, calls>>

----------------------------------------------------------------------------
(* The tool registry and the call_tool request handler of the server *)

\* Definitions of which the last took the name of the first.
allToolDefinitionsNameTakenTwice ==
    << [name |-> "get_product", handler |-> "getProduct"],
       [name |-> "delete_product", handler |-> "deleteProduct"],
       [name |-> "get_product", handler |-> "deleteProduct"] >>

\* The tool definitions in registration order, each with its name and the
\* handler function it names.
allToolDefinitions ==
    << [name |-> "list_products", handler |-> "listProducts"],
       [name |-> "get_product", handler |-> "getProduct"],
       [name |-> "search_products", handler |-> "searchProducts"],
       [name |-> "create_product", handler |-> "createProduct"],
       [name |-> "update_product", handler |-> "updateProduct"],
       [name |-> "delete_product", handler |-> "deleteProduct"],
       [name |-> "update_product_variant", handler |-> "updateProductVariant"],
       [name |-> "list_orders", handler |-> "listOrders"],
       [name |-> "get_order", handler |-> "getOrder"],
       [name |-> "create_draft_order", handler |-> "createDraftOrder"],
       [name |-> "complete_draft_order", handler |-> "completeDraftOrder"],
       [name |-> "update_order", handler |-> "updateOrder"],
       [name |-> "cancel_order", handler |-> "cancelOrder"],
       [name |-> "add_order_note", handler |-> "addOrderNote"],
       [name |-> "list_customers", handler |-> "listCustomers"],
       [name |-> "get_customer", handler |-> "getCustomer"],
       [name |-> "search_customers", handler |-> "searchCustomers"],
       [name |-> "create_customer", handler |-> "createCustomer"],
       [name |-> "update_customer", handler |-> "updateCustomer"],
       [name |-> "get_inventory_levels", handler |-> "getInventoryLevels"],
       [name |-> "get_inventory_item", handler |-> "getInventoryItem"],
       [name |-> "adjust_inventory", handler |-> "adjustInventory"],
       [name |-> "set_inventory", handler |-> "setInventory"],
       [name |-> "list_collections", handler |-> "listCollections"],
       [name |-> "get_collection", handler |-> "getCollection"],
       [name |-> "create_collection", handler |-> "createCollection"],
       [name |-> "add_products_to_collection", handler |-> "addProductsToCollection"],
       [name |-> "list_discounts", handler |-> "listDiscounts"],
       [name |-> "create_discount_code", handler |-> "createDiscountCode"],
       [name |-> "delete_discount", handler |-> "deleteDiscount"],
       [name |-> "create_fulfillment", handler |-> "createFulfillment"],
       [name |-> "update_tracking", handler |-> "updateTracking"],
       [name |-> "cancel_fulfillment", handler |-> "cancelFulfillment"],
       [name |-> "list_refunds", handler |-> "listRefunds"],
       [name |-> "calculate_refund", handler |-> "calculateRefund"],
       [name |-> "create_refund", handler |-> "createRefund"],
       [name |-> "create_return", handler |-> "createReturn"],
       [name |-> "get_shop_info", handler |-> "getShopInfo"],
       [name |-> "get_locations", handler |-> "getLocations"] >>

\* new Map(entries): the entries are set in order, so of two entries with one
\* key the later one stays.
NewMap(entries) ==
    [k \in {entries[i].name : i \in 1..Len(entries)} |->
        LET last == CHOOSE i \in 1..Len(entries) :
                        /\ entries[i].name = k
                        /\ \A j \in (i + 1)..Len(entries) : entries[j].name # k
        IN  entries[last].handler]

toolHandlerMap == NewMap(allToolDefinitions)

\* String.prototype.toLowerCase, on the names that are asked for.
ToLowerCase(name) ==
    CASE name = "GET_PRODUCT" -> "get_product"
      [] OTHER -> name

\* A lookup that does not mind the case of the name.
MapGetIgnoreCase(map, key) ==
    IF ToLowerCase(key) \in DOMAIN map THEN map[ToLowerCase(key)] ELSE "undefined"

\* Map.prototype.get: the value set under exactly this key, or undefined.
MapGet(map, key) ==
    IF key \in DOMAIN map THEN map[key] ELSE "undefined"

\* Names a call_tool request may carry: registered ones, and ones that are
\* not registered, among them near misses of registered names.
UnregisteredNames == {"GET_PRODUCT", "get_product ", "get_products", ""}

RequestNames == Tools \cup UnregisteredNames

\* args || {}
OrEmptyObject(args) == IF args.isNull THEN [isNull |-> FALSE, id |-> <<>>] ELSE args

\* The tool a handler function runs as.
HandlerTool(handler) ==
    CASE handler = "getProduct" -> "get_product"
      [] handler = "deleteProduct" -> "delete_product"

\* new McpError(ErrorCode.MethodNotFound, ...)
MethodNotFound ==
    [kind |-> "McpError", isError |-> TRUE, code |-> "MethodNotFound", tools |-> <<>>]

\* A result that flags only what the catch block caught.
callToolResultUnflagged(rejected, result) ==
    [kind |-> "result",
     isError |-> rejected,
     code |-> IF rejected THEN "TOOL_EXECUTION_ERROR"
              ELSE IF result.success THEN "" ELSE result.error.code,
     tools |-> <<>>]

\* What the call_tool handler returns once the tool handler's promise settled:
\* rejected, or resolved to result.
callToolResult(rejected, result) ==
    IF rejected
    THEN [kind |-> "result", isError |-> TRUE, code |-> "TOOL_EXECUTION_ERROR",
          tools |-> <<>>]
    ELSE IF result.success
    THEN [kind |-> "result", isError |-> FALSE, code |-> "", tools |-> <<>>]
    ELSE [kind |-> "result", isError |-> TRUE, code |-> result.error.code,
          tools |-> <<>>]

\* startServer: the environment is validated (the process exits when it is
\* incomplete) and the client initialized from it; then requests are served.
StartServer ==
    /\ ~clientInstance.present /\ tool = "none" /\ op = "none"
    /\ validateConfig(env)
    /\ clientInstance' = NewClient([given |-> TRUE, storeUrl |-> env.storeUrl,
                                    accessToken |-> env.accessToken], env, 1)
    /\ UNCHANGED <<env, gatewayVars, handlerVars, serverVars, codec, lifecycle, utility, calls>>

\* The list_tools handler: the names of the definitions, in their order.
ListTools ==
    /\ clientInstance.present /\ dpc = "idle" /\ tool = "none" /\ op = "none"
    /\ reply.kind = "none"
    /\ reply' = [kind |-> "tools", isError |-> FALSE, code |-> "",
                 tools |-> [i \in 1..Len(allToolDefinitions) |->
                               allToolDefinitions[i].name]]
    /\ UNCHANGED <<env, clientInstance, gatewayVars, handlerVars, requestName, dpc,
                   codec, lifecycle, utility, calls>>

\* The call_tool handler from the request to its await of the tool handler,
\* or to its throw when the name is not registered.
CallTool ==
    /\ clientInstance.present /\ dpc = "idle" /\ tool = "none" /\ op = "none"
    /\ \E name \in RequestNames, args \in Inputs :
        /\ requestName' = name
        /\ LET handler == MapGet(toolHandlerMap, name)
           IN  IF handler = "undefined"
               THEN /\ dpc' = "thrown"
                    /\ reply' = MethodNotFound
                    /\ UNCHANGED <<clientInstance, gatewayVars, handlerVars>>
               ELSE /\ invoke(HandlerTool(handler), OrEmptyObject(args))
                    /\ dpc' = "awaiting"
                    /\ UNCHANGED reply
    /\ UNCHANGED <<env, codec, lifecycle, utility, calls>>

\* The call_tool handler after its await: the tool handler's promise settled.
CallToolReturn ==
    /\ dpc = "awaiting" /\ hpc \in {"resolved", "rejected"}
    /\ reply' = callToolResult(hpc = "rejected", envelope)
    /\ dpc' = "returned"
    /\ UNCHANGED <<env, clientInstance, gatewayVars, handlerVars, requestName, codec, lifecycle, utility, calls>>

----------------------------------------------------------------------------
(* The codec called on its own *)

\* toGid(type, id)
ToGid ==
    /\ codec.stage = "none"
    /\ \E type \in TypeTags, id \in IdValues :
        codec' = [codec EXCEPT !.stage = "encoded", !.type = type, !.id = id,
                               !.encoded = toGid(type, id)]
    /\ UNCHANGED <<env, clientInstance, gatewayVars, handlerVars, serverVars, lifecycle, utility, calls>>

\* toGid(type, g) of a g that toGid returned.
ToGidAgain ==
    /\ codec.stage = "encoded"
    /\ \E type \in TypeTags :
        codec' = [codec EXCEPT !.stage = "encodedAgain", !.againType = type,
                               !.again = toGid(type, StringId(codec.encoded))]
    /\ UNCHANGED <<env, clientInstance, gatewayVars, handlerVars, serverVars, lifecycle, utility, calls>>

\* fromGid(g) of a g that toGid returned.
FromGidOfToGid ==
    /\ codec.stage = "encoded"
    /\ codec' = [codec EXCEPT !.stage = "decoded", !.decoded = fromGid(codec.encoded)]
    /\ UNCHANGED <<env, clientInstance, gatewayVars, handlerVars, serverVars, lifecycle, utility, calls>>

\* fromGid(gid) of any string.
FromGid ==
    /\ codec.stage = "none"
    /\ \E gid \in Strings :
        codec' = [codec EXCEPT !.stage = "decodedOnly", !.id = StringId(gid),
                               !.decoded = fromGid(gid)]
    /\ UNCHANGED <<env, clientInstance, gatewayVars, handlerVars, serverVars, lifecycle, utility, calls>>

----------------------------------------------------------------------------
(* The lifecycle functions of the client, called on their own *)

\* A getShopifyClient that constructs on every call.
mustConstructAlways(config) == TRUE

\* !clientInstance || config
mustConstruct(config) == ~clientInstance.present \/ config.given

\* A construction whose failure leaves no instance behind.
constructClearing(call, config) ==
    IF validateConfig(MergedConfig(config, env))
    THEN /\ clientInstance' = NewClient(config, env, lifecycle.made + 1)
         /\ lifecycle' = [made |-> lifecycle.made + 1, call |-> call,
                          withConfig |-> config.given, config |-> config,
                          threw |-> FALSE, error |-> NoException,
                          returned |-> lifecycle.made + 1, before |-> clientInstance]
    ELSE /\ lifecycle' = [lifecycle EXCEPT !.call = call, !.withConfig = config.given,
                                           !.config = config,
                                           !.threw = TRUE,
                                           !.error = ConfigError(MergedConfig(config, env)),
                                           !.returned = 0,
                                           !.before = clientInstance]
         /\ clientInstance' = NoClient

\* clientInstance = new ShopifyGraphQLClient(config): the constructor throws
\* when validateConfig does, and then nothing is assigned.
construct(call, config) ==
    IF validateConfig(MergedConfig(config, env))
    THEN /\ clientInstance' = NewClient(config, env, lifecycle.made + 1)
         /\ lifecycle' = [made |-> lifecycle.made + 1, call |-> call,
                          withConfig |-> config.given, config |-> config,
                          threw |-> FALSE, error |-> NoException,
                          returned |-> lifecycle.made + 1, before |-> clientInstance]
    ELSE /\ lifecycle' = [lifecycle EXCEPT !.call = call, !.withConfig = config.given,
                                           !.config = config,
                                           !.threw = TRUE,
                                           !.error = ConfigError(MergedConfig(config, env)),
                                           !.returned = 0,
                                           !.before = clientInstance]
         /\ UNCHANGED clientInstance

\* getShopifyClient(config?), the instances counted
getShopifyClientCall(config) ==
    IF mustConstruct(config)
    THEN construct("getShopifyClient", config)
    ELSE /\ lifecycle' = [lifecycle EXCEPT !.call = "getShopifyClient",
                                           !.withConfig = config.given,
                                           !.config = config,
                                           !.threw = FALSE, !.error = NoException,
                                           !.returned = clientInstance.instance,
                                           !.before = clientInstance]
         /\ UNCHANGED clientInstance

GetShopifyClient ==
    /\ lifecycle.made < MaxInstances
    /\ \E config \in {NoConfig} \cup Configs : getShopifyClientCall(config)
    /\ UNCHANGED <<env, gatewayVars, handlerVars, serverVars, codec, utility, calls>>

\* resetShopifyClient()
ResetShopifyClient ==
    /\ clientInstance' = NoClient
    /\ lifecycle' = [lifecycle EXCEPT !.call = "resetShopifyClient", !.withConfig = FALSE,
                                      !.config = NoConfig,
                                      !.threw = FALSE, !.error = NoException, !.returned = 0,
                                      !.before = clientInstance]
    /\ UNCHANGED <<env, gatewayVars, handlerVars, serverVars, codec, utility, calls>>

\* initializeShopifyClient(config)
InitializeShopifyClient ==
    /\ lifecycle.made < MaxInstances
    /\ \E config \in Configs : construct("initializeShopifyClient", config)
    /\ UNCHANGED <<env, gatewayVars, handlerVars, serverVars, codec, utility, calls>>

----------------------------------------------------------------------------
(* Calls in flight at the same time *)

\* Each call has the locals of its own frame: the client it obtained (the
\* local client of a handler, this of queryAll), its upstream, its place in
\* it and its allNodes.  via lists its requests: the client each went
\* through, and the instance the singleton held then.
\* What a call may be: a tool handler with its one request, or a queryAll
\* over one or two pages.
CallKinds == {"tool", "queryAll"}

CallScripts == ScriptsOver({2}, {"c1"}, 2)

\* The items of page p of the upstream of call i.
NodesOf(i, p, n) == [k \in 1..n |-> <<i, p, k>>]

\* A call that takes the singleton anew for every request.
clientOfSingleton(i) == clientInstance

\* The client the requests of call i go through: the one it obtained.
clientOf(i) == calls[i].client

\* A queryAll that collects into the array of the first call.
pushIntoFirst(i, nodes) == calls[1].allNodes \o nodes

\* allNodes.push(...nodes), in the frame of call i
pushOf(i, nodes) == calls[i].allNodes \o nodes

\* One request of call i goes out.
Sent(i) == [through |-> clientOf(i), current |-> clientInstance.instance]

\* A call starts: it obtains the client with getShopifyClient() and runs to
\* its first await, its first request sent; or getShopifyClient throws.
StartCall ==
    /\ lifecycle.made < MaxInstances
    /\ getShopifyClientCall(NoConfig)
    /\ \E i \in CallIds, kind \in CallKinds, s \in CallScripts :
        /\ calls[i].status = "idle"
        /\ kind = "tool" => Len(s) = 1
        /\ calls' = [calls EXCEPT ![i] =
              IF lifecycle'.threw
              THEN [NoCall EXCEPT !.status = "thrown", !.kind = kind]
              ELSE [status |-> "awaiting", kind |-> kind, client |-> clientInstance',
                    script |-> s, pos |-> 1, allNodes |-> <<>>,
                    via |-> <<[through |-> clientInstance',
                               current |-> clientInstance'.instance]>>,
                    result |-> <<>>]]
    /\ UNCHANGED <<env, gatewayVars, handlerVars, serverVars, codec, utility>>

\* The request in flight of one of the calls is answered, whichever: a tool
\* returns what it was answered; queryAll appends its page and requests the
\* next one or returns.
AnswerCall ==
    /\ \E i \in CallIds :
        /\ calls[i].status = "awaiting"
        /\ IF calls[i].kind = "tool"
           THEN calls' = [calls EXCEPT ![i].status = "returned",
                                       ![i].result = NodesOf(i, 1, 1)]
           ELSE LET page == calls[i].script[calls[i].pos]
                    nodes == pushOf(i, NodesOf(i, calls[i].pos, page.size))
                IN  IF page.hasNextPage
                    THEN calls' = [calls EXCEPT ![i].allNodes = nodes,
                                                ![i].pos = calls[i].pos + 1,
                                                ![i].via = Append(calls[i].via, Sent(i))]
                    ELSE calls' = [calls EXCEPT ![i].allNodes = nodes,
                                                ![i].status = "returned",
                                                ![i].result = nodes]
    /\ UNCHANGED <<env, clientInstance, gatewayVars, handlerVars, serverVars, codec,
                   lifecycle, utility>>

\* The request in flight of one of the calls is rejected: the call throws,
\* its frame gone.
RejectCall ==
    /\ \E i \in CallIds :
        /\ calls[i].status = "awaiting"
        /\ calls' = [calls EXCEPT ![i].status = "thrown", ![i].allNodes = <<>>]
    /\ UNCHANGED <<env, clientInstance, gatewayVars, handlerVars, serverVars, codec,
                   lifecycle, utility>>

\* initializeShopifyClient(config) with the configuration of another store,
\* while calls are in flight.
Reinitialize ==
    /\ lifecycle.made < MaxInstances
    /\ construct("initializeShopifyClient",
                 [given |-> TRUE, storeUrl |-> "other.myshopify.com",
                  accessToken |-> "tok2"])
    /\ UNCHANGED <<env, gatewayVars, handlerVars, serverVars, codec, utility, calls>>

----------------------------------------------------------------------------
(* The functions that keep no state, called on their own *)

\* The constructor up to the endpoint: the config merged, validated, and
\* the endpoint built.
BuildEndpoint ==
    /\ utility.fn = "none"
    /\ \E storeUrl \in StoreUrls, configVersion \in {"", "2024-10"},
          envVersion \in {"", "2024-07"} :
          utility' = [fn |-> "buildEndpoint", storeUrl |-> storeUrl,
                      configVersion |-> configVersion, envVersion |-> envVersion,
                      out |-> buildEndpoint(storeUrl,
                                            ApiVersion(configVersion, envVersion))]
    /\ UNCHANGED <<env, clientInstance, gatewayVars, handlerVars, serverVars, codec,
                   lifecycle, calls>>

CombinePaginatedResults ==
    /\ utility.fn = "none"
    /\ \E results \in ResultLists(MaxResults) :
          utility' = [fn |-> "combinePaginatedResults", results |-> results,
                      out |-> combinePaginatedResults(results)]
    /\ UNCHANGED <<env, clientInstance, gatewayVars, handlerVars, serverVars, codec,
                   lifecycle, calls>>

----------------------------------------------------------------------------
(* Specifications *)

Next ==
    \/ Query
    \/ Mutate
    \/ QueryAll
    \/ QueryAnswered
    \/ MutateAnswered
    \/ PageAnswered
    \/ RequestFails
    \/ ExtractorFails
    \/ InvokeTool
    \/ ToolAnswered
    \/ ToolRequestFails
    \/ StartServer
    \/ ListTools
    \/ CallTool
    \/ CallToolReturn

Spec == Init /\ [][Next]_vars

\* queryAll drains the upstream of one node per page.
CeilingNext ==
    \/ QueryAllOneItem
    \/ PageAnswered

CeilingSpec == Init /\ [][CeilingNext]_vars

\* queryAll drains an upstream that never ends, and every page request gets
\* its answer: the transport resolves each request it was given.
RunawayNext ==
    \/ QueryAllRunaway
    \/ PageAnswered

\* The codec functions are static: they are called on any arguments, in any
\* environment.
CodecNext ==
    \/ ToGid
    \/ ToGidAgain
    \/ FromGidOfToGid
    \/ FromGid

CodecSpec == Init /\ [][CodecNext]_vars

\* The lifecycle functions are exported: they are called in any order.
ClientNext ==
    \/ GetShopifyClient
    \/ ResetShopifyClient
    \/ InitializeShopifyClient

ClientSpec == Init /\ [][ClientNext]_vars

\* queryAll with the caller's variables, its pages answered.
PagingNext ==
    \/ QueryAllWithVariables
    \/ PageAnswered

PagingSpec == Init /\ [][PagingNext]_vars

\* The mutating handlers, their mutation answered or refused.
MutatingNext ==
    \/ InvokeMutatingTool
    \/ MutatingToolAnswered
    \/ ToolRequestFails

MutatingSpec == Init /\ [][MutatingNext]_vars

\* Calls in flight while the singleton is initialized again.
ConcurrentNext ==
    \/ StartCall
    \/ AnswerCall
    \/ RejectCall
    \/ Reinitialize

ConcurrentSpec == Init /\ [][ConcurrentNext]_vars

UtilityNext ==
    \/ CombinePaginatedResults
    \/ BuildEndpoint

UtilitySpec == Init /\ [][UtilityNext]_vars

RunawaySpec == Init /\ [][RunawayNext]_vars /\ WF_vars(PageAnswered)

----------------------------------------------------------------------------
(* Properties of queryAll *)

\* The nodes of the first k pages of script s, in page order.
RECURSIVE FirstPages(_, _)
FirstPages(s, k) ==
    IF k = 0 THEN EmptyList ELSE Concat(FirstPages(s, k - 1), PageNodes(k, s[k].size))

\* The number of nodes in the first k pages of script s.
RECURSIVE CountPages(_, _)
CountPages(s, k) == IF k = 0 THEN 0 ELSE CountPages(s, k - 1) + s[k].size

\* No page before the last one brings the count over the ceiling.
WithinLimit(s) == \A k \in 1..(Len(s) - 1) : CountPages(s, k) <= SafetyLimit

Returned == op = "queryAll" /\ pc = "returned"

\* C1 as stated: for every script in which only the last page reports
\* hasNextPage false, queryAll returns the nodes of all its pages in page order.
C1_AllPagesReturned ==
    Returned => allNodes = FirstPages(script, Len(script))

\* C1, amended: for every script in which only the last page reports
\* hasNextPage false and no page before the last brings the count over 10000,
\* queryAll returns the nodes of all pages in page order, none dropped,
\* duplicated or reordered.
C1_AllPagesWithinLimit ==
    (Returned /\ WithinLimit(script)) => allNodes = FirstPages(script, Len(script))

\* Pages of sizes 2, 2, 1 were drained into 5 items.
C1_Witness ==
    /\ Returned
    /\ Len(script) = 3
    /\ <<script[1].size, script[2].size, script[3].size>> = <<2, 2, 1>>
    /\ allNodes.length = 5

OneItemPerPage == Len(script) > 0 /\ \A i \in 1..Len(script) : script[i].size = 1

\* C2 as stated: against an upstream of 1 item per page that always reports
\* hasNextPage true, queryAll returns exactly 10000 items and does not throw.
C2_ExactlyCeiling ==
    (op = "queryAll" /\ OneItemPerPage)
        => /\ pc # "thrown"
           /\ pc = "returned" => allNodes.length = SafetyLimit

\* C2, amended: against that upstream queryAll does not throw and returns
\* exactly 10001 items, the first count that exceeds the ceiling, having
\* warned; it never holds more.
C2_OnePastCeiling ==
    (op = "queryAll" /\ OneItemPerPage)
        => /\ pc # "thrown"
           /\ allNodes.length <= SafetyLimit + 1
           /\ pc = "returned" => (allNodes.length = SafetyLimit + 1 /\ warned)

\* queryAll has returned from the upstream of 1 item per page.
C2_Witness ==
    Returned /\ OneItemPerPage /\ warned /\ allNodes.length = SafetyLimit + 1

\* C3 as stated: with every page request answered, a queryAll that was
\* called returns, whatever the sizes of the pages of an upstream that always
\* reports hasNextPage true.
C3_Terminates == (op = "queryAll") ~> (pc = "returned")

\* C4 as stated: after a page that reports hasNextPage true with a null
\* endCursor no further page request is in flight.
C4_NullCursorTerminal ==
    ~(op = "queryAll" /\ pc = "awaiting" /\ sent > 1
      /\ hasNextPage /\ cursor = NullCursor)

----------------------------------------------------------------------------
(* Properties of mutate *)

\* The transport answered the mutation with an object, and the value under
\* the result key (the mutation name when one was supplied, the object's
\* first key otherwise) carries this userErrors list.
KeyedUserErrors(list) ==
    /\ ~response.isNull
    /\ \E i \in 1..Len(response.fields) :
        /\ response.fields[i].key =
             (IF mutationName # "" THEN mutationName ELSE response.fields[1].key)
        /\ response.fields[i].value.kind = "object"
        /\ response.fields[i].value.hasUserErrors
        /\ response.fields[i].value.userErrors = list

MutateDone == op = "mutate" /\ pc \in {"returned", "thrown"} /\ ~response.isNull

\* C5: when the keyed sub-object of the answer has a non-empty userErrors
\* list, mutate does not throw and returns success false, data null and
\* that list.
C5_UserErrorsReturned ==
    \A list \in UserErrorLists \ {<<>>} :
        (MutateDone /\ KeyedUserErrors(list))
            => /\ pc = "returned"
               /\ mutResult = [success |-> FALSE, data |-> NullResponse,
                               userErrors |-> list]

\* mutate returned a rejection of two user errors.
C5_Witness ==
    /\ op = "mutate" /\ pc = "returned"
    /\ \E list \in UserErrorLists : Len(list) = 2 /\ KeyedUserErrors(list)
    /\ ~mutResult.success

\* C6: when the keyed userErrors list of the answer is empty, mutate returns
\* success true, the entire response as data and no userErrors; and whatever
\* mutate returns, success is true exactly when that list is empty or absent.
C6_SuccessNormalized ==
    MutateDone
        => /\ pc = "returned"
           /\ KeyedUserErrors(<<>>)
                => mutResult = [success |-> TRUE, data |-> response, userErrors |-> <<>>]
           /\ mutResult.success
                <=> ~(\E list \in UserErrorLists \ {<<>>} : KeyedUserErrors(list))
           /\ mutResult.success => mutResult.data = response

\* mutate returned success for an answer whose keyed userErrors list is empty.
C6_Witness ==
    /\ op = "mutate" /\ pc = "returned"
    /\ KeyedUserErrors(<<>>)
    /\ mutResult.success
    /\ Len(response.fields) = 2

----------------------------------------------------------------------------
(* Properties of the classifier *)

TransportThrew == pc = "thrown" /\ raisedBy = "transport"

Mentions(pattern) == \E i \in 1..Len(raised.message) : raised.message[i] = pattern

\* C7: a thrown transport Error is classified by its message, the first
\* clause that applies deciding: "Throttled" gives rate-limit; "401" or
\* "Unauthorized" gives authentication; "404" or "not found" gives not-found;
\* any other message gives the generic API error.
C7_ClassifiedByMessage ==
    (TransportThrew /\ raised.class = "Error")
        => thrown.class =
             IF Mentions("Throttled") THEN "ShopifyRateLimitError"
             ELSE IF Mentions("401") \/ Mentions("Unauthorized")
             THEN "ShopifyAuthenticationError"
             ELSE IF Mentions("404") \/ Mentions("not found")
             THEN "ShopifyNotFoundError"
             ELSE "ShopifyAPIError"

\* An Error whose message says Unauthorized and nothing else that matters
\* came out as the authentication kind.
C7_Witness ==
    /\ TransportThrew /\ raised.class = "Error"
    /\ Mentions("Unauthorized") /\ ~Mentions("Throttled") /\ ~Mentions("401")
    /\ thrown.class = "ShopifyAuthenticationError"

\* C8 as stated: every exception that escapes query, mutate or queryAll is
\* of one of the four classified kinds, whatever was thrown by the transport
\* or by the page extractor.
C8_AlwaysClassified ==
    pc = "thrown" => thrown.class \in ClassifiedClasses

\* C8, amended: every exception that escapes query, mutate or queryAll
\* because a transport request failed, or because mutate could not read the
\* answer, is of one of the four classified kinds, whatever value was thrown,
\* and so is never a ValidationError; what the page extractor throws escapes
\* queryAll as it was thrown, unclassified.
C8_ClassifiedUnlessExtractor ==
    pc = "thrown"
        => /\ raisedBy # "extractor" => thrown.class \in ClassifiedClasses
           /\ raisedBy = "extractor" => (op = "queryAll" /\ thrown = raised)

\* The transport threw a value that is no Error, and a generic API error
\* escaped.
C8_Witness ==
    /\ TransportThrew
    /\ raised.class = "NonError"
    /\ thrown = ShopifyAPIError(UnknownMessage)

\* C9: a call of query or mutate has sent exactly one transport request, while
\* it waits and when it has returned or thrown, whatever the failure was
\* classified as.
C9_OneRequest ==
    op \in {"query", "mutate"} => sent = 1

\* A throttled query threw the rate-limit kind after its one request.
C9_Witness ==
    /\ op = "query" /\ TransportThrew
    /\ thrown.class = "ShopifyRateLimitError"
    /\ sent = 1

----------------------------------------------------------------------------
(* Properties of the tool handlers *)

WellFormedEnvelope(e) ==
    \/ e.success /\ e.hasData /\ ~e.hasError
    \/ ~e.success /\ ~e.hasData /\ e.hasError /\ e.error.code # ""

\* C10: a handler's promise never rejects, and what it resolves to is a
\* success envelope with data or a failure envelope with an error that has a
\* code and a message, whatever the argument, the outcome of the gateway call
\* and the environment the client is built from.
C10_AlwaysEnvelope ==
    /\ hpc # "rejected"
    /\ hpc = "resolved" => WellFormedEnvelope(envelope)
    /\ (tool # "none" /\ pc \in {"returned", "thrown"}) => hpc = "resolved"

\* A handler that could not build the client resolved to a failure envelope.
C10_Witness ==
    /\ tool # "none" /\ hpc = "resolved"
    /\ ~validateConfig(env)
    /\ ~envelope.success /\ envelope.error.code = "UNKNOWN_ERROR"

----------------------------------------------------------------------------
(* Properties of the dispatch boundary *)

\* The names of the tool definitions.
RegisteredNames == {allToolDefinitions[i].name : i \in 1..Len(allToolDefinitions)}

\* C11: a call_tool request that names a registered tool never makes the
\* call_tool handler throw, and the result it returns is marked isError
\* exactly when the tool handler's envelope has success false or the tool
\* handler's promise rejected.
C11_StructuredResult ==
    (dpc # "idle" /\ requestName \in RegisteredNames)
        => /\ dpc # "thrown"
           /\ (hpc \in {"resolved", "rejected"}) => tool = HandlerTool(toolHandlerMap[requestName])
           /\ dpc = "returned"
                => /\ reply.kind = "result"
                   /\ reply.isError <=> (hpc = "rejected" \/ ~envelope.success)

\* The server answered delete_product, rejected with user errors, with a
\* result marked isError.
C11_Witness ==
    /\ dpc = "returned" /\ requestName = "delete_product"
    /\ op = "mutate" /\ pc = "returned" /\ ~mutResult.success
    /\ reply.isError /\ reply.code = "VALIDATION_ERROR"

\* C12: a call_tool request whose name is not exactly a registered name makes
\* the call_tool handler throw method-not-found; in that step no tool handler
\* starts and no transport request is sent, and none starts for it later.
C12_UnknownToolRejected ==
    /\ [](dpc = "thrown" => (tool = "none" /\ hpc = "idle" /\ reply = MethodNotFound))
    /\ [][(dpc = "idle" /\ dpc' # "idle" /\ requestName' \notin RegisteredNames)
            => /\ dpc' = "thrown"
               /\ UNCHANGED <<gatewayVars, handlerVars>>]_vars

\* A request for GET_PRODUCT, which differs from a registered name in case
\* only, was refused and nothing was sent.
C12_Witness ==
    /\ dpc = "thrown" /\ requestName = "GET_PRODUCT"
    /\ reply.code = "MethodNotFound"
    /\ sent = 0 /\ tool = "none"

\* C13: every failure envelope a tool handler resolves to carries a code of
\* the fixed outward set, the values of ErrorCodes, whatever classified error
\* the gateway threw.
C13_OutwardCodes ==
    (hpc = "resolved" /\ ~envelope.success) => envelope.error.code \in ErrorCodes

----------------------------------------------------------------------------
(* Properties of the identifier codec *)

\* A short identifier: one that toGid does not take for an opaque one.
IsShort(id) == ~StartsWithGidPrefix(String(id))

AllIn(str, class) == \A i \in 1..Len(str) : str[i] \in class

\* C14 as stated: for every short identifier s, string or number, and every
\* type tag t, fromGid(toGid(t, s)) is the stringified s.
C14_RoundTrip ==
    (codec.stage = "decoded" /\ IsShort(codec.id))
        => codec.decoded = String(codec.id)

\* C14, amended: for every short identifier s whose stringified form is a
\* non-empty run of decimal digits, and every non-empty type tag t of word
\* characters, fromGid(toGid(t, s)) is the stringified s.
C14_RoundTripNumeric ==
    (/\ codec.stage = "decoded"
     /\ String(codec.id) # <<>> /\ AllIn(String(codec.id), Digits)
     /\ codec.type # <<>> /\ AllIn(codec.type, WordParts))
        => codec.decoded = String(codec.id)

\* The number 345 was encoded as a Product and decoded to "345".
C14_Witness ==
    /\ codec.stage = "decoded"
    /\ codec.id.kind = "number" /\ codec.id.num = 345
    /\ codec.type = <<"Product">>
    /\ codec.encoded = <<GidPrefix, "Product", "/", "3", "4", "5">>
    /\ codec.decoded = <<"3", "4", "5">>

\* C15: toGid returns an identifier that is opaque already as it is, whatever
\* the type tag; so encoding what toGid returned, with the same or another
\* type tag, gives it back.
C15_EncodeIdempotent ==
    /\ (codec.stage # "none" /\ codec.stage # "decodedOnly" /\ ~IsShort(codec.id))
          => codec.encoded = String(codec.id)
    /\ codec.stage = "encodedAgain" => codec.again = codec.encoded

\* A short identifier was encoded as a Product, and the result encoded again
\* with another type tag came back unchanged.
C15_Witness ==
    /\ codec.stage = "encodedAgain"
    /\ codec.id = StringId(<<"1">>)
    /\ codec.type = <<"Product">> /\ codec.againType = <<>>
    /\ codec.again = <<GidPrefix, "Product", "/", "1">>

\* C16: fromGid returns its argument unchanged for every string that toGid
\* would not pass through as opaque already.
C16_NonOpaqueUnchanged ==
    (codec.stage = "decodedOnly" /\ IsShort(codec.id))
        => codec.decoded = String(codec.id)

----------------------------------------------------------------------------
(* Properties of the identifiers the handlers send and return *)

\* The opaque form: the literal, a type of word characters, a slash and a
\* run of digits to the end.
IsOpaqueForm(str) ==
    /\ Len(str) >= 4
    /\ str[1] = GidPrefix
    /\ \E w \in 2..(Len(str) - 2) :
        /\ AllIn(SubSeq(str, 2, w), WordParts)
        /\ str[w + 1] = "/"
        /\ AllIn(SubSeq(str, w + 2, Len(str)), Digits)

\* The short form: a run of digits.
IsShortForm(str) == str # <<>> /\ AllIn(str, Digits)

\* C17: when a handler was given its id in the short or in the opaque form,
\* the id in the variables of the transport request it sends is in the
\* opaque form.
C17_OpaqueOnTheWire ==
    (/\ tool # "none" /\ ~input.isNull /\ sent > 0
     /\ IsShortForm(input.id) \/ IsOpaqueForm(input.id))
        => /\ IsOpaqueForm(variables.id)
           /\ fromGid(variables.id) = fromGid(input.id)

\* get_product was given the short id 123 and asked for the opaque one.
C17_Witness ==
    /\ tool = "get_product" /\ pc = "awaiting"
    /\ input.id = ShortProductId
    /\ variables.id = OpaqueProductId

\* C18: the resource identifier in the data of a success envelope is in the
\* short form, also when the caller gave it in the opaque form.
C18_ShortInTheData ==
    (/\ tool # "none" /\ hpc = "resolved" /\ envelope.success
     /\ IsShortForm(input.id) \/ IsOpaqueForm(input.id))
        => IsShortForm(envelope.data.id)

----------------------------------------------------------------------------
(* Properties of the tool registry *)

\* C19: tool names are unique: the handler map has as many entries as there
\* are tool definitions, every name list_tools gives is the key of the
\* handler of its own definition, and a call by a listed name runs that
\* handler.
C19_UniqueToolNames ==
    /\ Cardinality(DOMAIN toolHandlerMap) = Len(allToolDefinitions)
    /\ \A i \in 1..Len(allToolDefinitions) :
        MapGet(toolHandlerMap, allToolDefinitions[i].name) = allToolDefinitions[i].handler
    /\ reply.kind = "tools"
        => /\ Len(reply.tools) = Cardinality(DOMAIN toolHandlerMap)
           /\ \A i \in 1..Len(reply.tools) :
                toolHandlerMap[reply.tools[i]] = allToolDefinitions[i].handler
    /\ \A i \in 1..Len(allToolDefinitions) :
        (dpc = "awaiting" /\ requestName = allToolDefinitions[i].name)
            => tool = HandlerTool(allToolDefinitions[i].handler)

\* All 39 names were listed, and a call of the listed get_product runs
\* getProduct.
C19_Witness ==
    /\ reply.kind = "tools" /\ Len(reply.tools) = 39
    /\ \E i \in 1..Len(reply.tools) : reply.tools[i] = requestName
    /\ requestName = "get_product" /\ tool = "get_product" /\ dpc = "awaiting"

----------------------------------------------------------------------------
(* Properties of the client singleton *)

\* The last lifecycle call replaced the instance that was held.
Replaced == lifecycle.before.present /\ clientInstance # lifecycle.before

\* C20: one instance is held at most, the one constructed last; once there is
\* one, getShopifyClient() without a configuration returns it and leaves it
\* in place; the instance held is replaced only by a call that was given a
\* configuration, or by a reset.
C20_OneClient ==
    /\ clientInstance.present => clientInstance.instance \in 1..lifecycle.made
    /\ (/\ lifecycle.call = "getShopifyClient" /\ ~lifecycle.withConfig
        /\ lifecycle.before.present)
          => /\ ~lifecycle.threw
             /\ lifecycle.returned = lifecycle.before.instance
             /\ clientInstance = lifecycle.before
    /\ (lifecycle.call # "none" /\ lifecycle.call # "resetShopifyClient"
        /\ ~lifecycle.threw)
          => (clientInstance.present /\ lifecycle.returned = clientInstance.instance)
    /\ Replaced
          => \/ lifecycle.call = "resetShopifyClient"
             \/ lifecycle.call \in {"initializeShopifyClient", "getShopifyClient"}
                  /\ lifecycle.withConfig

\* A second instance had replaced the first, and getShopifyClient() returned
\* the second.
C20_Witness ==
    /\ lifecycle.call = "getShopifyClient" /\ ~lifecycle.withConfig
    /\ lifecycle.made = 2 /\ lifecycle.returned = 2
    /\ lifecycle.before.present /\ clientInstance = lifecycle.before

\* The last lifecycle call ran the constructor.
Constructing ==
    \/ lifecycle.call = "initializeShopifyClient"
    \/ lifecycle.call = "getShopifyClient"
         /\ (lifecycle.withConfig \/ ~lifecycle.before.present)

\* C23 as stated: a construction given a config with an empty storeUrl or
\* no accessToken fails.
C23_EmptyArgumentFails ==
    (/\ Constructing /\ lifecycle.withConfig
     /\ (lifecycle.config.storeUrl = "" \/ lifecycle.config.accessToken = ""))
        => lifecycle.threw

\* C23: a construction fails with the configuration error exactly when
\* neither the config argument nor the environment gives a store URL, or
\* neither gives an access token; no request has been sent then, and no
\* instance was made.
C23_MissingConfigFails ==
    Constructing =>
        LET merged == MergedConfig(lifecycle.config, env)
        IN  /\ lifecycle.threw <=> (merged.storeUrl = "" \/ merged.accessToken = "")
            /\ lifecycle.threw =>
                 /\ lifecycle.error = (IF merged.storeUrl = "" THEN StoreUrlRequired
                                       ELSE AccessTokenRequired)
                 /\ sent = 0
                 /\ lifecycle.returned = 0

\* A construction with a store URL and no access token anywhere threw.
C23_Witness ==
    /\ Constructing /\ lifecycle.threw
    /\ lifecycle.config.storeUrl # "" /\ lifecycle.config.accessToken = ""
    /\ env.accessToken = ""
    /\ lifecycle.error = AccessTokenRequired

\* C30: when the constructor throws in getShopifyClient or in
\* initializeShopifyClient, clientInstance is what it was before the call.
C30_FailedConstructionKeepsInstance ==
    lifecycle.threw => clientInstance = lifecycle.before

\* initializeShopifyClient(config) threw while an instance was held, and the
\* instance is still held.
C30_Witness ==
    /\ lifecycle.threw /\ lifecycle.call = "initializeShopifyClient"
    /\ lifecycle.before.present /\ clientInstance.present

----------------------------------------------------------------------------
(* Precedence of the classifier *)

\* The kinds in their order of precedence, and the patterns of each.
KindOrder == <<"ShopifyRateLimitError", "ShopifyAuthenticationError",
               "ShopifyNotFoundError", "ShopifyAPIError">>

PatternsOf(kind) ==
    CASE kind = "ShopifyRateLimitError" -> {"Throttled"}
      [] kind = "ShopifyAuthenticationError" -> {"401", "Unauthorized"}
      [] kind = "ShopifyNotFoundError" -> {"404", "not found"}
      [] kind = "ShopifyAPIError" -> {}

\* The places in KindOrder of the kinds the raised message has a pattern of;
\* the generic kind takes any message.
MatchedRanks ==
    {r \in 1..4 : r = 4 \/ \E p \in PatternsOf(KindOrder[r]) : Mentions(p)}

FirstMatchedKind ==
    KindOrder[CHOOSE r \in MatchedRanks : \A q \in MatchedRanks : r <= q]

\* C28: the kind of a classified transport Error is the first, in the order
\* rate-limit, authentication, not-found, generic, of the kinds whose
\* pattern the message has, also when it has patterns of several kinds;
\* nothing but the message decides.
C28_KindByPrecedence ==
    (TransportThrew /\ raised.class = "Error")
        => /\ thrown.class = FirstMatchedKind
           /\ thrown = handleError(Exception("Error", raised.message))

\* A message with a pattern of the rate-limit kind and one of the
\* authentication kind was classified rate-limit.
C28_Witness ==
    /\ TransportThrew /\ raised.class = "Error"
    /\ {1, 2} \subseteq MatchedRanks
    /\ Mentions("Throttled") /\ Mentions("Unauthorized")
    /\ thrown.class = "ShopifyRateLimitError"

----------------------------------------------------------------------------
(* A failed page request of queryAll *)

\* A step in which a page request of queryAll is rejected.
PageRequestFails == op = "queryAll" /\ pc = "awaiting" /\ raisedBy' = "transport"

\* C29: when a page request of queryAll fails, queryAll throws the
\* classified error of that request, sends no request in that step or after
\* it, and keeps no item of the pages before.
C29_FailedPageThrows ==
    /\ [][PageRequestFails
            => /\ pc' = "thrown"
               /\ thrown' = handleError(raised')
               /\ thrown'.class \in ClassifiedClasses
               /\ sent' = sent
               /\ allNodes' = EmptyList]_vars
    /\ [][(op = "queryAll" /\ pc = "thrown")
            => (sent' = sent /\ pc' = "thrown" /\ allNodes' = EmptyList)]_vars

\* The request for the third page failed, and queryAll threw.
C29_Witness ==
    /\ op = "queryAll" /\ TransportThrew
    /\ sent = 3
    /\ allNodes = EmptyList
    /\ thrown.class \in ClassifiedClasses

----------------------------------------------------------------------------
(* The variables of the page requests of queryAll *)

PageRequested == op = "queryAll" /\ pc = "awaiting"

\* C26: the first page request of queryAll carries after = null, whatever
\* after the caller's variables have; each later request carries the
\* endCursor of the page just fetched; the caller's other variables go out
\* unchanged on every request.
C26_AfterIsTheCursor ==
    PageRequested
        => /\ variables.id = callerVariables.id
           /\ pos = 1 => variables.after = NullCursor
           /\ pos > 1 => variables.after = script[pos - 1].endCursor

\* The caller's variables had an id and an after of their own; the second
\* page is requested, after the first page's cursor.
C26_Witness ==
    /\ PageRequested /\ pos = 2
    /\ callerVariables.after = "c9" /\ callerVariables.id # <<>>
    /\ script[1].endCursor = "c1"
    /\ variables.after = "c1"

----------------------------------------------------------------------------
(* Properties of combinePaginatedResults *)

Combined == utility.fn = "combinePaginatedResults" /\ Len(utility.results) > 0

\* The item at place k of the results taken one after another.
RECURSIVE ItemAt(_, _)
ItemAt(results, k) ==
    IF k <= Len(results[1].items) THEN results[1].items[k]
    ELSE ItemAt(Tail(results), k - Len(results[1].items))

RECURSIVE ItemCount(_)
ItemCount(results) ==
    IF results = <<>> THEN 0 ELSE Len(results[1].items) + ItemCount(Tail(results))

AllItemsInOrder ==
    /\ Len(utility.out.items) = ItemCount(utility.results)
    /\ \A k \in 1..Len(utility.out.items) :
         utility.out.items[k] = ItemAt(utility.results, k)

\* C25 as stated: of a non-empty list of results, all items come back in
\* order, startCursor is the first result's, endCursor the last result's, and
\* hasNextPage and hasPreviousPage are the last result's.
C25_RestFromFinalPage ==
    Combined
        => LET first == utility.results[1].pageInfo
               last == utility.results[Len(utility.results)].pageInfo
           IN  /\ AllItemsInOrder
               /\ utility.out.pageInfo.startCursor = first.startCursor
               /\ utility.out.pageInfo.endCursor = last.endCursor
               /\ utility.out.pageInfo.hasNextPage = last.hasNextPage
               /\ utility.out.pageInfo.hasPreviousPage = last.hasPreviousPage

\* C25, amended: of a non-empty list of results, all items come back in
\* order, startCursor and hasPreviousPage are the first result's, endCursor
\* and hasNextPage the last result's.
C25_BackwardFromFirstForwardFromLast ==
    Combined
        => LET first == utility.results[1].pageInfo
               last == utility.results[Len(utility.results)].pageInfo
           IN  /\ AllItemsInOrder
               /\ utility.out.pageInfo.startCursor = first.startCursor
               /\ utility.out.pageInfo.endCursor = last.endCursor
               /\ utility.out.pageInfo.hasNextPage = last.hasNextPage
               /\ utility.out.pageInfo.hasPreviousPage = first.hasPreviousPage

\* Two results that differ in every field of pageInfo were combined.
C25_Witness ==
    /\ Combined /\ Len(utility.results) = 2
    /\ utility.results[1].items = <<"b">> /\ utility.results[2].items = <<"a">>
    /\ utility.results[1].pageInfo.hasPreviousPage
    /\ ~utility.results[2].pageInfo.hasPreviousPage
    /\ utility.results[1].pageInfo.hasNextPage
    /\ ~utility.results[2].pageInfo.hasNextPage
    /\ utility.results[1].pageInfo.startCursor # utility.results[2].pageInfo.startCursor
    /\ utility.results[1].pageInfo.endCursor # utility.results[2].pageInfo.endCursor
    /\ utility.out.items = <<"b", "a">>

----------------------------------------------------------------------------
(* Properties of the endpoint *)

EndpointBuilt == utility.fn = "buildEndpoint"

\* The version the endpoint of the last call has to have.
VersionUsed == ApiVersion(utility.configVersion, utility.envVersion)

\* The last character of the url is a slash.
EndsInSlash(url) == url # <<>> /\ url[Len(url)] \in Schemes \cup {"/"}

Front(url) == SubSeq(url, 1, Len(url) - 1)

\* https://{...}/admin/api/{version}/graphql.json, the sample included.
EndpointShape ==
    /\ Len(utility.out) >= 4
    /\ utility.out[1] = "https://"
    /\ SubSeq(utility.out, Len(utility.out) - 2, Len(utility.out))
         = <<"/admin/api/", VersionUsed, "/graphql.json">>
    /\ (utility.configVersion = "" /\ utility.envVersion = "")
         => VersionUsed = "2025-01"
    /\ (utility.storeUrl = <<"shop.myshopify.com">> /\ VersionUsed = "2025-01")
         => utility.out = <<"https://", "shop.myshopify.com", "/admin/api/",
                            "2025-01", "/graphql.json">>

\* C24 as stated: the endpoint is https://{url}/admin/api/{version}/graphql.json,
\* the version 2025-01 when none is given, and a store URL gives the same
\* endpoint with a leading scheme, whichever, as without it, and with one
\* trailing slash as without it.
C24_AnySchemeStripped ==
    EndpointBuilt
        => /\ EndpointShape
           /\ (utility.storeUrl[1] \in Schemes
               /\ Len(utility.storeUrl) > 1 /\ utility.storeUrl[2] \notin Schemes)
                 => utility.out = buildEndpoint(Tail(utility.storeUrl), VersionUsed)
           /\ (utility.storeUrl[Len(utility.storeUrl)] = "/"
               /\ ~EndsInSlash(replaceScheme(Front(utility.storeUrl))))
                 => utility.out = buildEndpoint(Front(utility.storeUrl), VersionUsed)

\* C24, amended: the endpoint is https://{url}/admin/api/{version}/graphql.json,
\* the version 2025-01 when neither the config nor the environment gives
\* one; a store URL gives the same endpoint with a leading http:// or
\* https:// as without it, and with one trailing slash as without it; any
\* other leading scheme stays in the endpoint.
C24_HttpSchemeStripped ==
    EndpointBuilt
        => /\ EndpointShape
           /\ (utility.storeUrl[1] \in HttpSchemes
               /\ (Len(utility.storeUrl) = 1 \/ utility.storeUrl[2] \notin HttpSchemes))
                 => utility.out = buildEndpoint(Tail(utility.storeUrl), VersionUsed)
           /\ (utility.storeUrl[1] \in Schemes \ HttpSchemes /\ Len(utility.storeUrl) > 1)
                 => utility.out[2] = utility.storeUrl[1]
           /\ (utility.storeUrl[Len(utility.storeUrl)] = "/"
               /\ ~EndsInSlash(replaceScheme(Front(utility.storeUrl))))
                 => utility.out = buildEndpoint(Front(utility.storeUrl), VersionUsed)

\* https://shop.myshopify.com/ with no version given came out as the
\* endpoint of shop.myshopify.com.
C24_Witness ==
    /\ EndpointBuilt
    /\ utility.storeUrl = <<"https://", "shop.myshopify.com", "/">>
    /\ utility.configVersion = "" /\ utility.envVersion = ""
    /\ utility.out = <<"https://", "shop.myshopify.com", "/admin/api/", "2025-01",
                       "/graphql.json">>

----------------------------------------------------------------------------
(* Business errors of a mutation, and the envelope of its tool *)

\* The list of business errors the answer reports for the mutation of the
\* tool: under userErrors for productDelete, under orderCancelUserErrors for
\* orderCancel; empty when it reports none.
ReportedErrors ==
    IF response.isNull THEN <<>>
    ELSE LET payload == Get(response, MutationName(tool))
         IN  IF payload.kind # "object" THEN <<>>
             ELSE IF tool = "cancel_order" THEN payload.orderCancelUserErrors
             ELSE IF payload.hasUserErrors THEN payload.userErrors
             ELSE <<>>

MutatingToolDone ==
    tool \in MutatingTools /\ hpc = "resolved" /\ op = "mutate" /\ pc = "returned"

\* C27: when the answer reports a non-empty list of business errors for the
\* mutation of a mutating tool, cancel_order included, the tool returns the
\* failure envelope of code VALIDATION_ERROR and not a success envelope.
C27_BusinessErrorsFail ==
    (MutatingToolDone /\ ReportedErrors # <<>>)
        => /\ ~envelope.success
           /\ envelope.hasError
           /\ envelope.error.code = "VALIDATION_ERROR"

----------------------------------------------------------------------------
(* Properties of calls in flight at the same time *)

\* C21: every request of a call goes through the client the call obtained
\* when it started, also after the singleton was replaced; and a call that
\* starts takes the instance the singleton holds at that time.
C21_OneClientPerCall ==
    /\ [](\A i \in CallIds : \A k \in 1..Len(calls[i].via) :
            calls[i].via[k].through = calls[i].client)
    /\ [][\A i \in CallIds :
            (calls[i].status = "idle" /\ calls'[i].status = "awaiting")
                => /\ calls'[i].client = clientInstance'
                   /\ clientInstance.present => calls'[i].client = clientInstance]_vars

\* Call 1 sent its second request through instance 1 when the singleton held
\* instance 2 already, and call 2, started since, has instance 2.
C21_Witness ==
    /\ Len(calls[1].via) = 2
    /\ calls[1].via[2].through.instance = 1 /\ calls[1].via[2].current = 2
    /\ calls[1].via[2].through.storeUrl # clientInstance.storeUrl
    /\ calls[2].status = "awaiting" /\ calls[2].client.instance = 2

\* The items of the first n pages of the upstream of call i, in page order.
RECURSIVE PagesOf(_, _)
PagesOf(i, n) ==
    IF n = 0 THEN <<>>
    ELSE PagesOf(i, n - 1) \o NodesOf(i, n, calls[i].script[n].size)

\* C22: whatever the order in which the requests of the calls in flight are
\* answered, each call has what it would have alone: a queryAll holds the
\* items of its own pages fetched so far in page order, returns those of all
\* its pages, and a tool returns its own answer.
C22_AsIfAlone ==
    \A i \in CallIds :
        /\ (calls[i].kind = "queryAll" /\ calls[i].status = "awaiting")
              => calls[i].allNodes = PagesOf(i, calls[i].pos - 1)
        /\ (calls[i].kind = "queryAll" /\ calls[i].status = "returned")
              => calls[i].result = PagesOf(i, Len(calls[i].script))
        /\ (calls[i].kind = "tool" /\ calls[i].status = "returned")
              => calls[i].result = NodesOf(i, 1, 1)

\* Call 1 returned the items of its two pages while call 2, a queryAll too,
\* had its first page and waited for its second.
C22_Witness ==
    /\ calls[1].kind = "queryAll" /\ calls[1].status = "returned"
    /\ Len(calls[1].result) = 4
    /\ calls[2].kind = "queryAll" /\ calls[2].status = "awaiting"
    /\ calls[2].pos = 2 /\ Len(calls[2].allNodes) = 2

====
